---- MODULE Spec2Model ----
(***************************************************************************)
(* Event deduplication and conflict detection of the MessageAI backend:    *)
(* EventIndexingService (app/services/event_indexing_service.py) and the   *)
(* conflict stage of OpenAIService.analyze_message_comprehensive           *)
(* (app/services/openai_service.py).                                       *)
(*                                                                         *)
(* The Pinecone "events" index is the only durable state.  Similarity      *)
(* scores are produced by an external embedding model, so every call draws *)
(* them from a small set of percentages; an external call either answers   *)
(* or raises.  Scores are integers in percent (0.75 is 75).                *)
(***************************************************************************)
EXTENDS Integers, Sequences, FiniteSets, TLC

VARIABLES
    index,   \* the events index: event id -> metadata record
    call     \* frame of the service call that has just run, or Idle

vars == <<index, call>>

(***************************************************************************)
(* Bounds and input domains                                                *)
(***************************************************************************)
MaxEvents == 2

\* Event ids: n stands for "evt_<n>".  The index holds at most MaxEvents
\* records, so one id is always unused.
EventIds == 1..(MaxEvents + 1)

None == "None"                    \* Python None in a string-valued field
NoTime == <<>>                    \* a missing or empty HH:MM value

DedupScores == {20, 60, 75, 80, 92}     \* scores of the duplicate search
CosineScores == {70, 92}                \* similarities computed in the loop
SemanticScores == {60, 80}              \* scores of the semantic query
DateScores == {50}                      \* scores of the date query (never read)

\* What the function call of the language model can hold for the calendar
\* event.  A time <<h, m>> is the string "hh:mm"; <<"whenever">> is a phrase
\* no parser resolves.
DateExpressions == {None, "2025-10-27", "someday"}
StartTimes == {NoTime, <<14, 30>>, <<"whenever">>}
EndTimes == {NoTime, <<15, 0>>}
NoDuration == -1                        \* duration: None
ExcMessages == {"", "connection refused"}    \* str(e) of a raised exception

\* The two threshold regimes a caller may intend (cross-conversation, strict).
Regimes == {75, 85}

Event(u, t, d, s, e, l) ==
    [user_id |-> u, title |-> t, date |-> d, startTime |-> s, endTime |-> e,
     location |-> l, conversation_id |-> "c1"]

\* Candidate events (the dictionaries handed to the service, without id).
Candidates ==
    { Event("u1", "Team Sync", "2025-10-27", <<14, 0>>, <<15, 0>>, None),
      Event("u1", "Dentist", "2025-10-27", <<15, 0>>, <<16, 0>>, "Clinic"),
      Event("u1", "Team Sync", "2025-10-28", <<14, 0>>, <<15, 0>>, None),
      Event("u2", "Team Sync", "2025-10-27", <<14, 0>>, <<15, 0>>, None) }

Min(a, b) == IF a < b THEN a ELSE b

(***************************************************************************)
(* The external index (Pinecone through langchain)                         *)
(***************************************************************************)
\* Ids of the records stored under a user (filter={"user_id": user_id}).
UserIds(idx, user) == {i \in DOMAIN idx : idx[i].user_id = user}

\* All answers the index can give to a filtered similarity query before the
\* top-k cut: every record of the user once, best score first.
Rankings(idx, user, scores) ==
    LET ids == UserIds(idx, user)
        n == Cardinality(ids)
    IN {r \in [1..n -> ids \X scores] :
           /\ \A i, j \in 1..n : i # j => r[i][1] # r[j][1]
           /\ \A i \in 1..n : i < n => r[i][2] >= r[i + 1][2]}

Ok(v) == [exc |-> FALSE, val |-> v]
Exc == [exc |-> TRUE, val |-> <<>>]

\* A similarity search that cuts the answer to the k records scoring lowest.
similarity_search_with_score_WorstFirst(ranking, k, fails) ==
    IF fails THEN Exc
    ELSE Ok(SubSeq(ranking, Len(ranking) - Min(k, Len(ranking)) + 1,
                   Len(ranking)))

\* events_store.similarity_search_with_score(query, k, filter)
similarity_search_with_score(ranking, k, fails) ==
    IF fails THEN Exc ELSE Ok(SubSeq(ranking, 1, Min(k, Len(ranking))))

\* `value or ""`
OrEmpty(v) == IF v = None THEN "" ELSE v

\* Metadata with the location dropped.
Metadata_NoLocation(event) ==
    [user_id |-> OrEmpty(event.user_id),
     event_id |-> event.id,
     title |-> OrEmpty(event.title),
     date |-> OrEmpty(event.date),
     startTime |-> event.startTime,
     endTime |-> event.endTime,
     location |-> "",
     conversation_id |-> OrEmpty(event.conversation_id)]

\* The metadata record index_event stores (created_at, a wall-clock stamp,
\* is left out).
Metadata(event) ==
    [user_id |-> OrEmpty(event.user_id),
     event_id |-> event.id,
     title |-> OrEmpty(event.title),
     date |-> OrEmpty(event.date),
     startTime |-> event.startTime,
     endTime |-> event.endTime,
     location |-> OrEmpty(event.location),
     conversation_id |-> OrEmpty(event.conversation_id)]

\* events_store.add_texts(texts, metadatas, ids): an upsert under the id.
add_texts(idx, id, metadata) ==
    [i \in DOMAIN idx \cup {id} |-> IF i = id THEN metadata ELSE idx[i]]

(***************************************************************************)
(* EventIndexingService: deduplication gate                                *)
(*                                                                         *)
(* A Python function is an operator giving an outcome: Ok(value) when it   *)
(* returns, Exc when an exception leaves it.                               *)
(***************************************************************************)
\* index_event: embed, build the metadata, upsert; any exception is caught
\* and reported as False, with nothing written.
index_event(idx, event, embedFails, upsertFails) ==
    IF embedFails \/ upsertFails
    THEN Ok([ok |-> FALSE, index |-> idx])
    ELSE Ok([ok |-> TRUE, index |-> add_texts(idx, event.id, Metadata(event))])

\* The probe without its except clause.
_get_user_event_count_Raises(ranking, fails) ==
    LET results == similarity_search_with_score(ranking, 1, fails)
    IN IF results.exc THEN Exc ELSE Ok(Len(results.val))

\* _get_user_event_count: a k=1 probe; an exception counts as zero events.
_get_user_event_count(ranking, fails) ==
    LET results == similarity_search_with_score(ranking, 1, fails)
    IN IF results.exc THEN Ok(0) ELSE Ok(Len(results.val))

\* The dictionary built from a returned document and its score.
Match(idx, hit) ==
    [event_id |-> idx[hit[1]].event_id,
     title |-> idx[hit[1]].title,
     date |-> idx[hit[1]].date,
     startTime |-> idx[hit[1]].startTime,
     endTime |-> idx[hit[1]].endTime,
     similarity_score |-> hit[2]]

RECURSIVE KeepAbove(_, _, _)
\* the loop `for doc, score in results: if score > limit: append(...)`
KeepAbove(idx, results, limit) ==
    IF results = <<>> THEN <<>>
    ELSE LET rest == KeepAbove(idx, Tail(results), limit)
         IN IF Head(results)[2] > limit
            THEN <<Match(idx, Head(results))>> \o rest
            ELSE rest

\* search_similar_events_by_query without its except clause.
search_similar_events_by_query_Raises(idx, ranking, k, fails) ==
    LET results == similarity_search_with_score(ranking, k, fails)
    IN IF results.exc THEN Exc ELSE Ok(KeepAbove(idx, results.val, 50))

\* search_similar_events_by_query: top-k, keep score > 0.5; an exception
\* is caught and yields the empty list.
search_similar_events_by_query(idx, ranking, k, fails) ==
    LET results == similarity_search_with_score(ranking, k, fails)
    IN IF results.exc THEN Ok(<<>>) ELSE Ok(KeepAbove(idx, results.val, 50))

SIMILARITY_THRESHOLD == 75

RECURSIVE FirstDuplicate_StrictlyAbove(_)
\* The duplicate loop with > in place of >=.
FirstDuplicate_StrictlyAbove(similar_events) ==
    IF similar_events = <<>> THEN <<>>
    ELSE IF Head(similar_events).similarity_score > SIMILARITY_THRESHOLD
         THEN <<Head(similar_events)>>
         ELSE FirstDuplicate_StrictlyAbove(Tail(similar_events))

RECURSIVE FirstDuplicate(_)
\* the loop returning the first similar event at or above the threshold;
\* <<>> when the loop falls through.
FirstDuplicate(similar_events) ==
    IF similar_events = <<>> THEN <<>>
    ELSE IF Head(similar_events).similarity_score >= SIMILARITY_THRESHOLD
         THEN <<Head(similar_events)>>
         ELSE FirstDuplicate(Tail(similar_events))

\* What check_duplicates_and_index returns and leaves behind: the returned
\* dictionary (similar_event is <<>> for None and <<match>> otherwise),
\* whether the duplicate search was issued, and the index afterwards.
DupResult(isDup, similar, indexed, searched, idx) ==
    [is_duplicate |-> isDup, similar_event |-> similar,
     indexed |-> indexed, searched |-> searched, index |-> idx]

\* The body without the zero-events fast path.
CheckDuplicatesBody_NoFastPath(idx, event, env) ==
    LET found == search_similar_events_by_query(idx, env.ranking, 3,
                                                env.searchFails)
        done == index_event(idx, event, env.embedFails, env.upsertFails)
    IN IF found.exc THEN Exc
       ELSE IF FirstDuplicate(found.val) # <<>>
       THEN Ok(DupResult(TRUE, FirstDuplicate(found.val), FALSE, TRUE, idx))
       ELSE IF done.exc THEN Exc
            ELSE Ok(DupResult(FALSE, <<>>, done.val.ok, TRUE, done.val.index))

\* The body indexing the candidate before it looks at the matches.
CheckDuplicatesBody_IndexesDuplicate(idx, event, env) ==
    LET count == _get_user_event_count(env.ranking, env.probeFails)
        found == search_similar_events_by_query(idx, env.ranking, 3,
                                                env.searchFails)
        done == index_event(idx, event, env.embedFails, env.upsertFails)
    IN IF count.exc \/ found.exc \/ done.exc THEN Exc
       ELSE IF count.val = 0
       THEN Ok(DupResult(FALSE, <<>>, done.val.ok, FALSE, done.val.index))
       ELSE IF FirstDuplicate(found.val) # <<>>
       THEN Ok(DupResult(TRUE, FirstDuplicate(found.val), FALSE, TRUE,
                         done.val.index))
       ELSE Ok(DupResult(FALSE, <<>>, done.val.ok, TRUE, done.val.index))

\* The body of check_duplicates_and_index inside its try block.
CheckDuplicatesBody(idx, event, env) ==
    LET count == _get_user_event_count(env.ranking, env.probeFails)
        found == search_similar_events_by_query(idx, env.ranking, 3,
                                                env.searchFails)
        done == index_event(idx, event, env.embedFails, env.upsertFails)
    IN IF count.exc THEN Exc
       ELSE IF count.val = 0
       THEN IF done.exc THEN Exc
            ELSE Ok(DupResult(FALSE, <<>>, done.val.ok, FALSE, done.val.index))
       ELSE IF found.exc THEN Exc
       ELSE IF FirstDuplicate(found.val) # <<>>
       THEN Ok(DupResult(TRUE, FirstDuplicate(found.val), FALSE, TRUE, idx))
       ELSE IF done.exc THEN Exc
            ELSE Ok(DupResult(FALSE, <<>>, done.val.ok, TRUE, done.val.index))

\* check_duplicates_and_index(event, query).  env.ranking is what the index
\* holds for the query; env.probeFails, searchFails, embedFails, upsertFails
\* say which external calls raise.  The outer except turns an exception of
\* the body into the negative answer.
check_duplicates_and_index(idx, event, env) ==
    LET body == CheckDuplicatesBody(idx, event, env)
    IN IF body.exc
       THEN Ok(DupResult(FALSE, <<>>, FALSE, FALSE, idx))
       ELSE Ok(body.val)

(***************************************************************************)
(* EventIndexingService: conflict detection                                *)
(***************************************************************************)
\* A value datetime.fromisoformat accepts as the HH:MM of f"{date}T{t}:00".
IsHHMM(t) == Len(t) \in {2, 3} /\ t[1] \in 0..23 /\ t[2] \in 0..59

\* The instant of a time on a given date, in minutes after midnight.
Minutes(t) == t[1] * 60 + t[2]

\* `not value` for a date string.
NoDate(d) == d = None \/ d = ""

\* _times_overlap with <= in place of <.
_times_overlap_Closed(date1, start1, end1, date2, start2, end2) ==
    IF NoDate(date1) \/ start1 = NoTime \/ end1 = NoTime
       \/ NoDate(date2) \/ start2 = NoTime \/ end2 = NoTime
    THEN FALSE
    ELSE IF date1 # date2 THEN FALSE
    ELSE IF ~(IsHHMM(start1) /\ IsHHMM(end1) /\ IsHHMM(start2) /\ IsHHMM(end2))
    THEN FALSE
    ELSE Minutes(start1) <= Minutes(end2) /\ Minutes(start2) <= Minutes(end1)

\* _times_overlap: false when a value is missing, when the dates differ and
\* when a time does not parse (ValueError); else the interval test.
_times_overlap(date1, start1, end1, date2, start2, end2) ==
    IF NoDate(date1) \/ start1 = NoTime \/ end1 = NoTime
       \/ NoDate(date2) \/ start2 = NoTime \/ end2 = NoTime
    THEN FALSE
    ELSE IF date1 # date2 THEN FALSE
    ELSE IF ~(IsHHMM(start1) /\ IsHHMM(end1) /\ IsHHMM(start2) /\ IsHHMM(end2))
    THEN FALSE
    ELSE Minutes(start1) < Minutes(end2) /\ Minutes(start2) < Minutes(end1)

\* The dictionary _search_time_conflicts and _search_semantic_similar build
\* from a document's metadata.
EventData(md) ==
    [event_id |-> md.event_id, title |-> md.title, date |-> md.date,
     startTime |-> md.startTime, endTime |-> md.endTime,
     location |-> md.location]

RECURSIVE OverlappingEvents(_, _, _)
\* the loop of _search_time_conflicts over the query results
OverlappingEvents(idx, detected_event, results) ==
    IF results = <<>> THEN <<>>
    ELSE LET md == idx[Head(results)[1]]
             rest == OverlappingEvents(idx, detected_event, Tail(results))
         IN IF /\ md.date = detected_event.date
               /\ _times_overlap(detected_event.date, detected_event.startTime,
                                 detected_event.endTime,
                                 md.date, md.startTime, md.endTime)
            THEN <<EventData(md)>> \o rest
            ELSE rest

\* The detected event carries a date, a start and an end (`all([...])`).
HasTimeInfo(detected_event) ==
    /\ ~NoDate(detected_event.date)
    /\ detected_event.startTime # NoTime
    /\ detected_event.endTime # NoTime

TIME_QUERY_K == 20

\* _search_time_conflicts: no query without full time information; else the
\* 20 best results of the date query, filtered by date and overlap; an
\* exception is caught and yields the empty list.
_search_time_conflicts(idx, detected_event, ranking, fails) ==
    IF ~HasTimeInfo(detected_event) THEN Ok(<<>>)
    ELSE LET results == similarity_search_with_score(ranking, TIME_QUERY_K, fails)
         IN IF results.exc THEN Ok(<<>>)
            ELSE Ok(OverlappingEvents(idx, detected_event, results.val))

RECURSIVE SemanticEvents(_, _)
\* the loop of _search_semantic_similar: keep score > 0.6
SemanticEvents(idx, results) ==
    IF results = <<>> THEN <<>>
    ELSE LET rest == SemanticEvents(idx, Tail(results))
         IN IF Head(results)[2] > 60
            THEN <<EventData(idx[Head(results)[1]])>> \o rest
            ELSE rest

SEMANTIC_QUERY_K == 10

\* _search_semantic_similar: an exception is caught and yields the empty list.
_search_semantic_similar(idx, ranking, fails) ==
    LET results == similarity_search_with_score(ranking, SEMANTIC_QUERY_K, fails)
    IN IF results.exc THEN Ok(<<>>) ELSE Ok(SemanticEvents(idx, results.val))

\* A reasoning string: its literal text and the values formatted into it
\* (a similarity is shown as a percentage, a count as a number).
Reasoning(text, title, startTime, endTime, similarity, count, message) ==
    [text |-> text, title |-> title, startTime |-> startTime,
     endTime |-> endTime, similarity |-> similarity, count |-> count,
     message |-> message]

PlainReasoning(text) == Reasoning(text, "", NoTime, NoTime, 0, 0, "")

\* _generate_reasoning with the conflicts looked at before the same-event flag.
_generate_reasoning_ConflictsFirst(conflicts, same_event_detected) ==
    IF Len(conflicts) = 1
    THEN Reasoning("This conflicts with your existing", conflicts[1].title,
                   conflicts[1].startTime, conflicts[1].endTime,
                   conflicts[1].similarity_score, 0, "")
    ELSE IF conflicts # <<>>
    THEN Reasoning("This conflicts with N existing events", "", NoTime, NoTime,
                   0, Len(conflicts), "")
    ELSE IF same_event_detected
    THEN PlainReasoning("This appears to be the same event being discussed")
    ELSE PlainReasoning("No scheduling conflicts detected")

\* _generate_reasoning
_generate_reasoning(conflicts, same_event_detected) ==
    IF same_event_detected
    THEN PlainReasoning("This appears to be the same event being discussed")
    ELSE IF conflicts = <<>>
    THEN PlainReasoning("No scheduling conflicts detected")
    ELSE IF Len(conflicts) = 1
    THEN Reasoning("This conflicts with your existing", conflicts[1].title,
                   conflicts[1].startTime, conflicts[1].endTime,
                   conflicts[1].similarity_score, 0, "")
    ELSE Reasoning("This conflicts with N existing events", "", NoTime, NoTime,
                   0, Len(conflicts), "")

\* The entry appended to conflicts for a different event in the same slot.
Conflict(event_data, similarity) ==
    [id |-> event_data.event_id, title |-> event_data.title,
     date |-> event_data.date, startTime |-> event_data.startTime,
     endTime |-> event_data.endTime, location |-> event_data.location,
     similarity_score |-> similarity]

SAME_EVENT_THRESHOLD == 70

RECURSIVE Classify_AllConflicts(_, _, _)
\* The loop without the same-event test: every time conflict is a conflict.
Classify_AllConflicts(time_conflicts, cosine, acc) ==
    IF time_conflicts = <<>> THEN acc
    ELSE LET event_data == Head(time_conflicts)
             similarity == cosine[event_data.event_id]
         IN Classify_AllConflicts(Tail(time_conflicts), cosine,
                [acc EXCEPT !.conflicts =
                                @ \o <<Conflict(event_data, similarity)>>])

RECURSIVE Classify_AtLeast(_, _, _)
\* The loop with >= in place of > in the same-event test.
Classify_AtLeast(time_conflicts, cosine, acc) ==
    IF time_conflicts = <<>> THEN acc
    ELSE LET event_data == Head(time_conflicts)
             similarity == cosine[event_data.event_id]
         IN IF similarity >= SAME_EVENT_THRESHOLD
            THEN Classify_AtLeast(Tail(time_conflicts), cosine,
                     [acc EXCEPT !.same_event_detected = TRUE,
                                 !.similar_events = @ \o <<event_data.event_id>>])
            ELSE Classify_AtLeast(Tail(time_conflicts), cosine,
                     [acc EXCEPT !.conflicts =
                                     @ \o <<Conflict(event_data, similarity)>>])

RECURSIVE Classify(_, _, _)
\* The loop over the time conflicts: above 0.7 is the same event, anything
\* else a conflict.  acc collects conflicts, similar_events and the flag.
Classify(time_conflicts, cosine, acc) ==
    IF time_conflicts = <<>> THEN acc
    ELSE LET event_data == Head(time_conflicts)
             similarity == cosine[event_data.event_id]
         IN IF similarity > SAME_EVENT_THRESHOLD
            THEN Classify(Tail(time_conflicts), cosine,
                     [acc EXCEPT !.same_event_detected = TRUE,
                                 !.similar_events = @ \o <<event_data.event_id>>])
            ELSE Classify(Tail(time_conflicts), cosine,
                     [acc EXCEPT !.conflicts =
                                     @ \o <<Conflict(event_data, similarity)>>])

\* The semantic step without the test against the conflicts.
NotInConflicts_All(semantic_similar, conflicts) ==
    [k \in 1..Len(semantic_similar) |-> semantic_similar[k].event_id]

RECURSIVE NotInConflicts(_, _)
\* The semantic neighbours whose id is not among the conflicts.
NotInConflicts(semantic_similar, conflicts) ==
    IF semantic_similar = <<>> THEN <<>>
    ELSE LET event_id == Head(semantic_similar).event_id
             rest == NotInConflicts(Tail(semantic_similar), conflicts)
         IN IF \A i \in 1..Len(conflicts) : conflicts[i].id # event_id
            THEN <<event_id>> \o rest
            ELSE rest

Verdict(has, conflicts, same, similar, reasoning) ==
    [has_conflicts |-> has, conflicts |-> conflicts,
     same_event_detected |-> same, similar_events |-> similar,
     reasoning |-> reasoning]

\* The verdict of an except clause: the literal text followed by str(e).
ErrorVerdict(text, message) ==
    Verdict(FALSE, <<>>, FALSE, <<>>,
            Reasoning(text, "", NoTime, NoTime, 0, 0, message))

\* The body of search_conflicts inside its try block.  env.timeRanking and
\* env.semRanking are what the index holds for the two queries, env.cosine
\* the similarity of the detected event to each stored event; env.timeFails,
\* embedFails, semFails say which external calls raise.
SearchConflictsBody(idx, detected_event, env) ==
    LET time_conflicts ==
            _search_time_conflicts(idx, detected_event, env.timeRanking,
                                   env.timeFails)
        cls == Classify(time_conflicts.val, env.cosine,
                        [conflicts |-> <<>>, similar_events |-> <<>>,
                         same_event_detected |-> FALSE])
        semantic_similar ==
            _search_semantic_similar(idx, env.semRanking, env.semFails)
    IN IF time_conflicts.exc THEN Exc
       ELSE IF time_conflicts.val # <<>> /\ env.embedFails THEN Exc
       ELSE IF semantic_similar.exc THEN Exc
       ELSE Ok(Verdict(cls.conflicts # <<>>, cls.conflicts,
                       cls.same_event_detected,
                       cls.similar_events \o
                           NotInConflicts(semantic_similar.val, cls.conflicts),
                       _generate_reasoning(cls.conflicts,
                                           cls.same_event_detected)))

\* search_conflicts without its except clause.
search_conflicts_Raises(idx, detected_event, env) ==
    LET body == SearchConflictsBody(idx, detected_event, env)
    IN IF body.exc THEN Exc ELSE Ok(body.val)

\* search_conflicts(detected_event, user_id)
search_conflicts(idx, detected_event, env) ==
    LET body == SearchConflictsBody(idx, detected_event, env)
    IN IF body.exc
       THEN Ok(ErrorVerdict("Error searching conflicts: ", env.message))
       ELSE Ok(body.val)

\* _check_calendar_conflicts_pinecone without its except clause.
_check_calendar_conflicts_pinecone_Raises(idx, detected_event, env) ==
    LET result == search_conflicts(idx, detected_event, env)
    IN IF env.serviceFails \/ result.exc THEN Exc ELSE Ok(result.val)

\* OpenAIService._check_calendar_conflicts_pinecone: get the indexing service
\* (env.serviceFails: its construction raises) and search; any exception
\* gives the "unavailable" verdict.
_check_calendar_conflicts_pinecone(idx, detected_event, env) ==
    LET result == search_conflicts(idx, detected_event, env)
    IN IF env.serviceFails \/ result.exc
       THEN Ok(ErrorVerdict("Conflict detection unavailable: ", env.message))
       ELSE Ok(result.val)

\* Python dictionaries are functions from their keys: d[k] = v adds the key
\* when it is absent, d.get(k) answers None for an absent key.
Put(d, k, v) == [x \in DOMAIN d \cup {k} |-> IF x = k THEN v ELSE d[x]]

Get(d, k) == IF k \in DOMAIN d THEN d[k] ELSE None

(***************************************************************************)
(* OpenAIService: annotation of the calendar event and the conflict stage  *)
(***************************************************************************)
\* dateparser.parse on a date expression: an ISO date resolves to itself,
\* the other phrase to nothing.
dateparser_parse(date_expr) ==
    IF date_expr \in {"2025-10-27", "2025-10-28"} THEN date_expr ELSE None

\* Python's `word in text` on strings.
Contains(text, word) ==
    \E i \in 1..(Len(text) - Len(word) + 1) :
        SubSeq(text, i, i + Len(word) - 1) = word

\* str.lower().strip() on the phrases of the model.
Lower(text) ==
    IF text = "Noon" THEN "noon" ELSE text

\* The vague-time fallback: the first word of the chain found in the
\* lowered phrase decides; the table lookup after the chain can add
\* nothing (each of its keys contains itself); no match gives the phrase.
VagueTime(time_lower, time_str) ==
    IF Contains(time_lower, "evening") THEN <<19, 0>>
    ELSE IF Contains(time_lower, "morning") THEN <<9, 0>>
    ELSE IF Contains(time_lower, "afternoon") THEN <<15, 0>>
    ELSE IF Contains(time_lower, "night") THEN <<20, 0>>
    ELSE IF Contains(time_lower, "late") THEN <<22, 0>>
    ELSE IF Contains(time_lower, "early") THEN <<8, 0>>
    ELSE IF Contains(time_lower, "noon") THEN <<12, 0>>
    ELSE IF Contains(time_lower, "midnight") THEN <<0, 0>>
    ELSE time_str

\* A time value is <<>> (None or ""), <<h, m>> (the string "HH:MM" with
\* both numbers on two digits), Unpadded(h, m) (the same time written
\* otherwise, as "9:05") or <<phrase>> (a string without a colon).
Unpadded(h, m) == <<h, m, "unpadded">>

IsPhrase(time_str) == Len(time_str) = 1

\* A valid time read as if it were an afternoon time.
_parse_time_with_fallback_AddsTwelve(time_str, parsed) ==
    IF time_str # NoTime /\ IsHHMM(time_str)
    THEN <<(time_str[1] + 12) % 24, time_str[2]>>
    ELSE parsed

\* _parse_time_with_fallback: a valid h:m value is returned formatted
\* HH:MM; otherwise what dateparser makes of the string (parsed: <<>> when
\* it returns None or raises); otherwise the vague-time fallback, an h:m
\* value out of range being returned as given; None for an empty string.
_parse_time_with_fallback(time_str, parsed) ==
    IF time_str # NoTime /\ IsHHMM(time_str)
    THEN <<time_str[1], time_str[2]>>
    ELSE IF parsed # NoTime THEN parsed
    ELSE IF time_str = NoTime THEN NoTime
    ELSE IF IsPhrase(time_str)
    THEN VagueTime(Lower(time_str[1]), time_str)
    ELSE time_str

\* `int(h), int(m) = map(int, t.split(':'))` succeeds.
SplitsToInts(t) == Len(t) \in {2, 3}

\* The 1-hour default without the wrap of the hour.
DefaultEndTime_NoWrap(start_time) ==
    IF SplitsToInts(start_time)
    THEN <<start_time[1] + 1, start_time[2]>>
    ELSE NoTime

\* The 1-hour default: (hour + 1) % 24 with the minutes of the start; None
\* when the start does not split into two integers.
DefaultEndTime(start_time) ==
    IF SplitsToInts(start_time)
    THEN <<(start_time[1] + 1) % 24, start_time[2]>>
    ELSE NoTime

\* The duration without the overnight correction.
DurationMinutes_NoOvernight(start_time, end_time) ==
    IF SplitsToInts(start_time) /\ SplitsToInts(end_time)
    THEN Minutes(end_time) - Minutes(start_time)
    ELSE 60

\* The duration in minutes of two truthy times: the difference, plus 24
\* hours when it is negative; 60 when a time does not split into integers.
DurationMinutes(start_time, end_time) ==
    IF SplitsToInts(start_time) /\ SplitsToInts(end_time)
    THEN IF Minutes(end_time) < Minutes(start_time)
         THEN Minutes(end_time) + 24 * 60 - Minutes(start_time)
         ELSE Minutes(end_time) - Minutes(start_time)
    ELSE 60

\* What dateparser makes of the start and end strings when it is asked.
SilentDelegate == [start |-> NoTime, end |-> NoTime]

\* The calendar part of _parse_date_expressions: date, startTime, endTime
\* (with the 1-hour default) and duration.
ParseCalendar(calendar, delegate) ==
    LET date == IF calendar.detected /\ ~NoDate(calendar.date_expression)
                THEN dateparser_parse(calendar.date_expression)
                ELSE None
        timed == calendar.detected /\ calendar.startTime # NoTime
        start_time == IF timed
                      THEN _parse_time_with_fallback(calendar.startTime,
                                                     delegate.start)
                      ELSE calendar.startTime
        end_time == IF ~timed THEN calendar.endTime
                    ELSE IF calendar.endTime = NoTime
                    THEN DefaultEndTime(start_time)
                    ELSE _parse_time_with_fallback(calendar.endTime,
                                                   delegate.end)
        duration == IF ~timed THEN NoDuration
                    ELSE IF start_time # NoTime /\ end_time # NoTime
                    THEN DurationMinutes(start_time, end_time)
                    ELSE calendar.duration
    IN Put([calendar EXCEPT !.startTime = start_time,
                            !.endTime = end_time, !.duration = duration],
           "date", date)

\* The conflict part of _parse_date_expressions: detected_at is the
\* reference time ("now") for a detected conflict with events, else None.
ParseConflict(conflict) ==
    Put(conflict, "detected_at",
        IF conflict.detected /\ conflict.conflicting_events # <<>>
        THEN "now" ELSE None)

\* conflict_user_id = user_id or "test_user"
ConflictUserId(user_id) == IF user_id = None THEN "test_user" ELSE user_id

\* The gate of the conflict stage with the end time not looked at.
ConflictCheckDue_NoEndTime(calendar) ==
    /\ calendar.detected
    /\ ~NoDate(calendar.date)
    /\ calendar.startTime # NoTime

\* The gate of the conflict stage: the event is detected and its date,
\* startTime and endTime are all truthy.
ConflictCheckDue(calendar) ==
    /\ calendar.detected
    /\ ~NoDate(calendar.date)
    /\ calendar.startTime # NoTime
    /\ calendar.endTime # NoTime

\* The dictionary handed to _check_calendar_conflicts_pinecone.
DetectedEvent(calendar) ==
    [title |-> calendar.title, date |-> calendar.date,
     startTime |-> calendar.startTime, endTime |-> calendar.endTime,
     location |-> calendar.location]

\* The conflict section after the stage has copied the verdict into it.
UpdateConflict(conflict, verdict) ==
    Put(Put(Put(Put(conflict, "detected", verdict.has_conflicts),
                "conflicting_events", verdict.conflicts),
            "reasoning", verdict.reasoning),
        "same_event_detected", verdict.same_event_detected)

\* How many queries the conflict detector sends to the index: none when the
\* indexing service cannot be built, the date query when the event has its
\* time information, and the semantic query unless an embedding request of
\* the loop has raised before it.
IndexQueries(idx, detected_event, env) ==
    LET time_conflicts ==
            _search_time_conflicts(idx, detected_event, env.timeRanking,
                                   env.timeFails)
    IN IF env.serviceFails THEN 0
       ELSE (IF HasTimeInfo(detected_event) THEN 1 ELSE 0)
            + (IF time_conflicts.val # <<>> /\ env.embedFails THEN 0 ELSE 1)

(***************************************************************************)
(* State machine                                                           *)
(***************************************************************************)
Idle == [op |-> "idle"]

Init ==
    /\ index = <<>>
    /\ call = Idle

\* uuid4: an id no stored record has (the least unused one).
FreshId(idx) ==
    CHOOSE i \in EventIds \ DOMAIN idx : \A j \in EventIds \ DOMAIN idx : i <= j

\* A caller (the create_event route) builds the event under a fresh id and
\* calls check_duplicates_and_index(event, query); the method has no
\* parameter for a threshold.  A fault is drawn only for an external call
\* that is issued.
CheckDuplicatesAndIndexOf(candidates) ==
    /\ call = Idle
    /\ \E cand \in candidates :
         \E ranking \in Rankings(index, cand.user_id, DedupScores) :
         \E pf \in BOOLEAN, sf \in BOOLEAN, ef \in BOOLEAN, uf \in BOOLEAN :
            LET event == cand @@ [id |-> FreshId(index)]
                env == [ranking |-> ranking, probeFails |-> pf,
                        searchFails |-> sf, embedFails |-> ef,
                        upsertFails |-> uf]
                out == check_duplicates_and_index(index, event, env)
                res == IF out.exc
                       THEN DupResult(FALSE, <<>>, FALSE, FALSE, index)
                       ELSE out.val
            IN /\ sf => (~pf /\ ranking # <<>>)
               /\ (ef \/ uf) => ~res.is_duplicate
               /\ uf => ~ef
               /\ Cardinality(DOMAIN res.index) <= MaxEvents
               /\ index' = res.index
               /\ call' = [op |-> "check_duplicates_and_index",
                           before |-> index, event |-> event, env |-> env,
                           result |-> [raised |-> out.exc,
                                       is_duplicate |-> res.is_duplicate,
                                       similar_event |-> res.similar_event,
                                       indexed |-> res.indexed,
                                       searched |-> res.searched]]

CheckDuplicatesAndIndex == CheckDuplicatesAndIndexOf(Candidates)

\* The call returns to its caller and its frame is dropped.
Return ==
    /\ call # Idle
    /\ call' = Idle
    /\ UNCHANGED index

\* A set to draw an external answer from when the call is issued, and the
\* one value that stands for "not asked" when it is not.
Draw(issued, answers, unasked) == IF issued THEN answers ELSE {unasked}

NoEnv ==
    [timeRanking |-> <<>>, cosine |-> <<>>, semRanking |-> <<>>,
     serviceFails |-> FALSE, timeFails |-> FALSE, embedFails |-> FALSE,
     semFails |-> FALSE, message |-> ""]

NoVerdict == <<>>

\* The calendar and conflict sections as the function call of the language
\* model gives them, after _ensure_complete_analysis.
RawCalendar(detected, date_expression, startTime, endTime) ==
    [detected |-> detected, title |-> "Dentist",
     date_expression |-> date_expression,
     startTime |-> startTime, endTime |-> endTime,
     duration |-> NoDuration, location |-> None]

RawConflict(detected) ==
    [detected |-> detected,
     conflicting_events |-> IF detected THEN <<"Lunch">> ELSE <<>>]

\* The frame of one analyze_message_comprehensive call.
AnalysisFrame(request_user, user, calendar, before, after, invoked, env, queries, raised, verdict) ==
    [op |-> "analyze_message", request_user |-> request_user,
     user_id |-> user, calendar |-> calendar,
     conflict_before |-> before, conflict |-> after, invoked |-> invoked,
     env |-> env, queries |-> queries, raised |-> raised,
     verdict |-> verdict]

\* The stored events of the user on a date: those the loop of
\* search_conflicts may have to compare the detected event with.
SameDateIds(idx, user, date) ==
    {i \in UserIds(idx, user) : idx[i].date = date}

\* analyze_message_comprehensive from the parsed function call on: the
\* calendar event is annotated, and the conflict stage runs the detector if
\* its gate lets it.  The index answers and faults are drawn for the calls
\* the detector issues.  user_ids holds the values the caller may pass as
\* user_id, request_user the user of the request when the caller is the
\* analyze-message route.
AnalyzeMessageAs(user_ids, request_user) ==
    /\ call = Idle
    /\ UNCHANGED index
    /\ \E detected \in BOOLEAN, date_expression \in DateExpressions,
          startTime \in StartTimes, endTime \in EndTimes,
          llmConflict \in BOOLEAN, user_id \in user_ids :
          LET calendar == ParseCalendar(RawCalendar(detected, date_expression,
                                                    startTime, endTime),
                                        SilentDelegate)
              conflict == ParseConflict(RawConflict(llmConflict))
              user == ConflictUserId(user_id)
              event == DetectedEvent(calendar)
          IN IF ~ConflictCheckDue(calendar)
             THEN call' = AnalysisFrame(request_user, user, calendar,
                                        conflict, conflict,
                                        FALSE, NoEnv, 0, FALSE, NoVerdict)
             ELSE
               LET dateRankings == Rankings(index, user, DateScores)
                   semRankings == Rankings(index, user, SemanticScores)
                   cosines == [SameDateIds(index, user, event.date)
                                   -> CosineScores]
               IN
               \E vf \in BOOLEAN :
               \E tf \in Draw(~vf, BOOLEAN, FALSE) :
               \E tr \in Draw(~vf /\ ~tf, dateRankings, <<>>) :
               \E ef \in Draw(~vf /\ _search_time_conflicts(index, event, tr, tf).val # <<>>,
                              BOOLEAN, FALSE) :
               \E sf \in Draw(~vf /\ ~ef, BOOLEAN, FALSE) :
               \E msg \in Draw(vf \/ ef, ExcMessages, "") :
               \E sr \in Draw(~vf /\ ~ef /\ ~sf, semRankings, <<>>) :
               \E cos \in cosines :
                  LET env == [timeRanking |-> tr, cosine |-> cos,
                              semRanking |-> sr, serviceFails |-> vf,
                              timeFails |-> tf, embedFails |-> ef,
                              semFails |-> sf, message |-> msg]
                      out == _check_calendar_conflicts_pinecone(index, event, env)
                  IN call' = AnalysisFrame(request_user, user, calendar,
                                 conflict,
                                 IF out.exc THEN conflict
                                 ELSE UpdateConflict(conflict, out.val),
                                 TRUE, env, IndexQueries(index, event, env),
                                 out.exc,
                                 IF out.exc THEN NoVerdict ELSE out.val)

\* The service called directly, with or without a user id.
AnalyzeMessage == AnalyzeMessageAs({None, "u1"}, None)

Next ==
    \/ CheckDuplicatesAndIndex
    \/ AnalyzeMessage
    \/ Return

Spec == Init /\ [][Next]_vars

(***************************************************************************)
(* The routes: create-event and analyze-message as the HTTP handlers call  *)
(* the services.                                                           *)
(***************************************************************************)
\* The users that send requests, and the events they create.
RequestUsers == {"u1", "test_user"}

RouteCandidates ==
    { Event("u1", "Team Sync", "2025-10-27", <<14, 0>>, <<15, 0>>, None),
      Event("test_user", "Standup", "2025-10-27", <<14, 30>>, <<15, 30>>, None) }

InitRoute ==
    /\ index = <<>>
    /\ call = Idle

\* POST /events: create_event hands the event of the request to
\* check_duplicates_and_index.
CreateEvent == CheckDuplicatesAndIndexOf(RouteCandidates)

\* POST /analyze-message: the handler calls analyze_message_comprehensive
\* with the text, the timestamp, the calendar and the conversation context
\* of the request; it passes no user_id.
AnalyzeRequest ==
    \E request_user \in RequestUsers : AnalyzeMessageAs({None}, request_user)

NextRoute ==
    \/ CreateEvent
    \/ AnalyzeRequest
    \/ Return

SpecRoute == InitRoute /\ [][NextRoute]_vars

(***************************************************************************)
(* Two create-event calls for one user in flight at the same time, served  *)
(* by two workers that share the index.  A call is interrupted only        *)
(* between its external calls: the probe, the duplicate search and the     *)
(* insert.                                                                 *)
(***************************************************************************)
\* The similarity of the two candidates to each other.
PairScores == {60, 80}

RaceCandidates == {c \in Candidates : c.user_id = "u1"}

\* The position of one call: what it is about to do, its event, and what
\* it returns.
RaceCall(pc, event, is_duplicate, indexed) ==
    [pc |-> pc, event |-> event, is_duplicate |-> is_duplicate,
     indexed |-> indexed]

Other(p) == 3 - p

\* A call is held back by a lock while the other call is between its check
\* and its insert.
MayStep_PerUserLock(procs, p) == procs[Other(p)].pc \in {"probe", "done"}

\* Nothing in check_duplicates_and_index or in the route holds a call
\* back: no lock, no transaction, no conditional write.
MayStep(procs, p) == TRUE

\* The answers of the index to the query of call p: every record of the
\* user, the record of the other call scored by the pair's similarity.
RaceRankings(idx, procs, p, sim) ==
    {r \in Rankings(idx, procs[p].event.user_id, DedupScores) :
        \A k \in 1..Len(r) :
            r[k][1] = procs[Other(p)].event.id => r[k][2] = sim}

InitRace ==
    /\ index = <<>>
    /\ call = Idle

\* Both requests arrive; the route gives each event an id of its own.
BeginRace ==
    /\ call = Idle
    /\ Cardinality(DOMAIN index) + 2 <= MaxEvents + 1
    /\ UNCHANGED index
    /\ \E a \in RaceCandidates, b \in RaceCandidates, sim \in PairScores :
          LET id1 == FreshId(index)
              id2 == FreshId([i \in DOMAIN index \cup {id1} |-> 0])
          IN call' = [op |-> "create_event_race", sim |-> sim,
                      proc |-> <<RaceCall("probe", a @@ [id |-> id1],
                                          FALSE, FALSE),
                                 RaceCall("probe", b @@ [id |-> id2],
                                          FALSE, FALSE)>>]

\* _get_user_event_count of call p: with no event of the user in the index
\* the duplicate search is skipped.
RaceProbe(p) ==
    /\ call.op = "create_event_race"
    /\ call.proc[p].pc = "probe"
    /\ MayStep(call.proc, p)
    /\ UNCHANGED index
    /\ \E ranking \in RaceRankings(index, call.proc, p, call.sim) :
          call' = [call EXCEPT !.proc[p].pc =
                      IF _get_user_event_count(ranking, FALSE).val = 0
                      THEN "index" ELSE "search"]

\* search_similar_events_by_query of call p and the loop over its matches.
RaceSearch(p) ==
    /\ call.op = "create_event_race"
    /\ call.proc[p].pc = "search"
    /\ MayStep(call.proc, p)
    /\ UNCHANGED index
    /\ \E ranking \in RaceRankings(index, call.proc, p, call.sim) :
          LET found == search_similar_events_by_query(index, ranking, 3, FALSE)
          IN call' = IF FirstDuplicate(found.val) # <<>>
                     THEN [call EXCEPT !.proc[p].pc = "done",
                                       !.proc[p].is_duplicate = TRUE]
                     ELSE [call EXCEPT !.proc[p].pc = "index"]

\* index_event of call p.
RaceIndex(p) ==
    /\ call.op = "create_event_race"
    /\ call.proc[p].pc = "index"
    /\ MayStep(call.proc, p)
    /\ index' = index_event(index, call.proc[p].event, FALSE, FALSE).val.index
    /\ call' = [call EXCEPT !.proc[p].pc = "done", !.proc[p].indexed = TRUE]

RaceStep(p) == RaceProbe(p) \/ RaceSearch(p) \/ RaceIndex(p)

\* Both calls have returned.
RaceReturn ==
    /\ call.op = "create_event_race"
    /\ \A p \in {1, 2} : call.proc[p].pc = "done"
    /\ call' = Idle
    /\ UNCHANGED index

NextRace ==
    \/ BeginRace
    \/ \E p \in {1, 2} : RaceProbe(p)
    \/ \E p \in {1, 2} : RaceSearch(p)
    \/ \E p \in {1, 2} : RaceIndex(p)
    \/ RaceReturn

SpecRace == InitRace /\ [][NextRace]_vars

(***************************************************************************)
(* EventIndexingService: update_event and delete_event, reached through    *)
(* the index and update routes.                                            *)
(***************************************************************************)
\* delete_event: events_store.delete(ids=[event_id]); an exception is
\* caught and reported as False, with nothing removed.  Deleting an id the
\* index does not hold removes nothing.
delete_event(idx, event_id, deleteFails) ==
    IF deleteFails
    THEN Ok([ok |-> FALSE, index |-> idx])
    ELSE Ok([ok |-> TRUE,
             index |-> [i \in DOMAIN idx \ {event_id} |-> idx[i]]])

\* An update that inserts the new version first and deletes afterwards.
update_event_InsertFirst(idx, event, env) ==
    LET added == index_event(idx, event, env.embedFails, env.upsertFails)
        deleted == delete_event(added.val.index, event.id, env.deleteFails)
    IN Ok([ok |-> added.val.ok, mid |-> added.val.index,
           index |-> deleted.val.index])

\* update_event: delete_event, whose answer is not looked at, then
\* index_event, whose answer is returned.  mid is the index between the
\* two calls.
update_event(idx, event, env) ==
    LET deleted == delete_event(idx, event.id, env.deleteFails)
        added == index_event(deleted.val.index, event, env.embedFails,
                             env.upsertFails)
    IN Ok([ok |-> added.val.ok, mid |-> deleted.val.index,
           index |-> added.val.index])

InitUpdate ==
    /\ index = <<>>
    /\ call = Idle

\* POST /events/index: the event of the request is indexed as it is.
IndexEvent ==
    /\ call = Idle
    /\ Cardinality(DOMAIN index) < MaxEvents
    /\ \E cand \in Candidates :
          LET event == cand @@ [id |-> FreshId(index)]
          IN /\ index' = index_event(index, event, FALSE, FALSE).val.index
             /\ call' = [op |-> "index_event", event |-> event]

\* PUT /events/{event_id}/index: the route sets the id of the event and
\* calls update_event.  A fault is drawn for each external call.
UpdateEvent ==
    /\ call = Idle
    /\ \E cand \in Candidates, event_id \in EventIds :
       \E df \in BOOLEAN, ef \in BOOLEAN :
       \E uf \in Draw(~ef, BOOLEAN, FALSE) :
          LET event == cand @@ [id |-> event_id]
              env == [deleteFails |-> df, embedFails |-> ef,
                      upsertFails |-> uf]
              out == update_event(index, event, env).val
          IN /\ Cardinality(DOMAIN out.index) <= MaxEvents
             /\ index' = out.index
             /\ call' = [op |-> "update_event", before |-> index,
                         event |-> event, env |-> env, mid |-> out.mid,
                         result |-> out.ok]

NextUpdate ==
    \/ IndexEvent
    \/ UpdateEvent
    \/ Return

SpecUpdate == InitUpdate /\ [][NextUpdate]_vars

(***************************************************************************)
(* The service accessors get_vector_store, get_openai_service and          *)
(* get_event_indexing_service: a module-level name that starts as None and *)
(* is assigned on the first call.                                          *)
(***************************************************************************)
MaxRequests == 3

Requests == 1..MaxRequests

Services == {"vector_store", "openai_service", "event_indexing_service"}

\* The accessors a request can call, by the thread that serves it: the
\* routes declared async def run on the event loop and between them call
\* all three; test_services is declared def, runs on a worker thread of the
\* pool and calls get_vector_store and get_openai_service.
AccessorsOf(thread) ==
    IF thread = "pool"
    THEN {"vector_store", "openai_service"}
    ELSE Services

\* A request that has read the module-level name and has not returned yet.
InAccessor(proc) == proc.pc \in {"checked", "assigned"}

\* The event loop runs one coroutine until its next await, and the async
\* routes have none around the accessor, so a request on the loop steps
\* only while no other request on the loop is inside an accessor.  A worker
\* thread of the pool is scheduled by the interpreter at any bytecode
\* boundary and whenever the constructor waits for the network.
MayRun(procs, p) ==
    procs[p].thread = "loop" =>
        \A q \in Requests \ {p} :
            procs[q].thread = "loop" => ~InAccessor(procs[q])

\* No instance: the value None of the module-level name.
NoInstance == 0

AccessorCall(thread, pc, service, saw_none, held) ==
    [thread |-> thread, pc |-> pc, service |-> service,
     saw_none |-> saw_none, held |-> held]

\* A fresh process: every module-level name is None, nothing constructed,
\* no request received.
InitSingleton ==
    /\ index = <<>>
    /\ call = [op |-> "accessors",
               instance |-> [s \in Services |-> NoInstance],
               made |-> [s \in Services |-> 0],
               proc |-> [p \in Requests |->
                           AccessorCall("loop", "idle", "vector_store",
                                        FALSE, NoInstance)]]

\* if _instance is None: the request enters an accessor and reads the name.
AccessorCheck(p) ==
    /\ call.op = "accessors"
    /\ call.proc[p].pc = "idle"
    /\ \E thread \in {"loop", "pool"} :
       \E s \in AccessorsOf(thread) :
          LET me == AccessorCall(thread, "checked", s,
                                 call.instance[s] = NoInstance, NoInstance)
          IN /\ MayRun([call.proc EXCEPT ![p] = me], p)
             /\ call' = [call EXCEPT !.proc[p] = me]
    /\ UNCHANGED index

\* _instance = Service(): the constructor builds an instance, the k-th of
\* its service, and the name is bound to it; or the constructor raises and
\* the name is left as it was.
AccessorConstruct(p) ==
    /\ call.op = "accessors"
    /\ call.proc[p].pc = "checked"
    /\ call.proc[p].saw_none
    /\ MayRun(call.proc, p)
    /\ LET s == call.proc[p].service
       IN \E raises \in BOOLEAN :
             IF raises
             THEN call' = [call EXCEPT !.proc[p].pc = "raised"]
             ELSE call' = [call EXCEPT !.made[s] = @ + 1,
                                       !.instance[s] = call.made[s] + 1,
                                       !.proc[p].pc = "assigned"]
    /\ UNCHANGED index

\* return _instance: the caller receives what the name is bound to now.
AccessorReturn(p) ==
    /\ call.op = "accessors"
    /\ \/ call.proc[p].pc = "checked" /\ ~call.proc[p].saw_none
       \/ call.proc[p].pc = "assigned"
    /\ MayRun(call.proc, p)
    /\ call' = [call EXCEPT !.proc[p].pc = "holding",
                            !.proc[p].held = call.instance[call.proc[p].service]]
    /\ UNCHANGED index

NextSingleton ==
    \/ \E p \in Requests : AccessorCheck(p)
    \/ \E p \in Requests : AccessorConstruct(p)
    \/ \E p \in Requests : AccessorReturn(p)

SpecSingleton == InitSingleton /\ [][NextSingleton]_vars

(***************************************************************************)
(* create-event calls served strictly one after another, every external    *)
(* call answering.                                                         *)
(***************************************************************************)
MaxSequential == 5

SequenceIds == 1..(MaxSequential + 1)

SequenceScores == {60, 80}

\* One event per user, created again and again: what the index scores a
\* repetition is for the index to say.
SequenceCandidates ==
    { Event("u1", "Team Sync", "2025-10-27", <<14, 0>>, <<15, 0>>, None),
      Event("u2", "Team Sync", "2025-10-27", <<14, 0>>, <<15, 0>>, None) }

\* uuid4 for the sequence: the least id no stored record has.
FreshSequenceId(idx) ==
    CHOOSE i \in SequenceIds \ DOMAIN idx :
        \A j \in SequenceIds \ DOMAIN idx : i <= j

NoFault(ranking) ==
    [ranking |-> ranking, probeFails |-> FALSE, searchFails |-> FALSE,
     embedFails |-> FALSE, upsertFails |-> FALSE]

InitSequential ==
    /\ index = <<>>
    /\ call = Idle

\* One create-event call, started when the one before has returned.
CreateNext ==
    /\ call = Idle
    /\ \E cand \in SequenceCandidates :
       \E ranking \in Rankings(index, cand.user_id, SequenceScores) :
          LET event == cand @@ [id |-> FreshSequenceId(index)]
              env == NoFault(ranking)
              res == check_duplicates_and_index(index, event, env).val
          IN /\ Cardinality(DOMAIN res.index) <= MaxSequential
             /\ index' = res.index
             /\ call' = [op |-> "check_duplicates_and_index",
                         before |-> index, event |-> event, env |-> env,
                         result |-> [raised |-> FALSE,
                                     is_duplicate |-> res.is_duplicate,
                                     similar_event |-> res.similar_event,
                                     indexed |-> res.indexed,
                                     searched |-> res.searched]]

NextSequential ==
    \/ CreateNext
    \/ Return

SpecSequential == InitSequential /\ [][NextSequential]_vars

(***************************************************************************)
(* _times_overlap on its own: every call of it with dates and times drawn  *)
(* from small sets, missing and unparseable values included.               *)
(***************************************************************************)
OverlapDates == {"", "2025-10-27", "2025-10-28"}
OverlapTimes ==
    {NoTime, <<14, 0>>, <<14, 30>>, <<15, 0>>, <<16, 0>>, <<"whenever">>}

InitOverlap ==
    /\ index = <<>>
    /\ call = Idle

TimesOverlap ==
    /\ call = Idle
    /\ UNCHANGED index
    /\ \E date1 \in OverlapDates, date2 \in OverlapDates,
          start1 \in OverlapTimes, end1 \in OverlapTimes,
          start2 \in OverlapTimes, end2 \in OverlapTimes :
          call' = [op |-> "_times_overlap",
                   date1 |-> date1, start1 |-> start1, end1 |-> end1,
                   date2 |-> date2, start2 |-> start2, end2 |-> end2,
                   result |-> _times_overlap(date1, start1, end1,
                                             date2, start2, end2)]

NextOverlap == TimesOverlap

SpecOverlap == InitOverlap /\ [][NextOverlap]_vars

(***************************************************************************)
(* "next <weekday>" on its own.  A date is a day number, day 0 a Monday, so *)
(* the weekday of day d is d % 7 (0 = Monday, as datetime.weekday()).      *)
(* dateparser is an external library: what it makes of each attempt is     *)
(* drawn: nothing, an exception, or a date some days after the reference.  *)
(***************************************************************************)
RefDays == 0..6
Weekdays == 0..6
NoParse == -1            \* dateparser.parse returned None
ParseRaises == -2        \* dateparser.parse raised
DelegateOffsets == 0..7
DelegateOutcomes == {NoParse, ParseRaises} \cup DelegateOffsets

\* The distinct strings among the parsing attempts for "next <weekday>":
\* the phrase, the phrase "from <reference date>", the phrase "at 12:00".
NumAttempts == 3

RECURSIVE FirstParsed(_, _)
\* The loop over parsing_attempts: the first attempt dateparser resolves
\* decides; an exception or an empty result moves on to the next attempt.
FirstParsed(reference, outcomes) ==
    IF outcomes = <<>> THEN NoParse
    ELSE IF Head(outcomes) \in DelegateOffsets
    THEN reference + Head(outcomes)
    ELSE FirstParsed(reference, Tail(outcomes))

\* The manual calculation with < in place of <=.
ManualNextWeekday_SameDay(reference, target_weekday) ==
    LET current_weekday == reference % 7
        days_ahead == target_weekday - current_weekday
    IN reference + (IF days_ahead < 0 THEN days_ahead + 7 ELSE days_ahead)

\* The manual calculation for "next <weekday>".
ManualNextWeekday(reference, target_weekday) ==
    LET current_weekday == reference % 7
        days_ahead == target_weekday - current_weekday
    IN reference + (IF days_ahead <= 0 THEN days_ahead + 7 ELSE days_ahead)

\* The date resolved for "next <weekday>": what dateparser gives for the
\* first attempt it resolves, else the manual calculation.
ResolveNextWeekday(reference, target_weekday, outcomes) ==
    LET parsed_date == FirstParsed(reference, outcomes)
    IN IF parsed_date # NoParse THEN parsed_date
       ELSE ManualNextWeekday(reference, target_weekday)

InitNextWeekday ==
    /\ index = <<>>
    /\ call = Idle

NextWeekday ==
    /\ call = Idle
    /\ UNCHANGED index
    /\ \E reference \in RefDays, target_weekday \in Weekdays,
          outcomes \in [1..NumAttempts -> DelegateOutcomes] :
          call' = [op |-> "next_weekday", reference |-> reference,
                   target_weekday |-> target_weekday, outcomes |-> outcomes,
                   date |-> ResolveNextWeekday(reference, target_weekday,
                                               outcomes)]

NextNextWeekday == NextWeekday

SpecNextWeekday == InitNextWeekday /\ [][NextNextWeekday]_vars

(***************************************************************************)
(* Annotation of the calendar event on its own: _parse_date_expressions    *)
(* applied to every raw calendar section of the input sets below, with     *)
(* what dateparser makes of a time string drawn when it is asked.          *)
(***************************************************************************)
AnnotateStarts ==
    {NoTime, <<0, 0>>, <<14, 0>>, <<23, 30>>, <<23, 59>>, <<25, 0>>,
     Unpadded(9, 5), <<"noon">>, <<"Noon">>, <<"midnight">>, <<"whenever">>}
AnnotateEnds ==
    {NoTime, <<0, 30>>, <<14, 0>>, <<15, 0>>, <<26, 30>>, <<"whenever">>}
AnnotateDurations == {NoDuration, 30}
DelegateTimes == {NoTime, <<0, 0>>, <<12, 0>>}

\* dateparser is asked about a string that is not a valid h:m value.
AsksDelegate(time_str) == time_str # NoTime /\ ~IsHHMM(time_str)

InitAnnotate ==
    /\ index = <<>>
    /\ call = Idle

Annotate ==
    /\ call = Idle
    /\ UNCHANGED index
    /\ \E detected \in BOOLEAN, date_expression \in {None, "2025-10-27"},
          startTime \in AnnotateStarts, endTime \in AnnotateEnds,
          duration \in AnnotateDurations :
       \E ps \in Draw(detected /\ AsksDelegate(startTime), DelegateTimes, NoTime) :
       \E pe \in Draw(detected /\ startTime # NoTime /\ AsksDelegate(endTime),
                      DelegateTimes, NoTime) :
          LET raw == [RawCalendar(detected, date_expression, startTime, endTime)
                          EXCEPT !.duration = duration]
              delegate == [start |-> ps, end |-> pe]
          IN call' = [op |-> "annotate", raw |-> raw, delegate |-> delegate,
                      calendar |-> ParseCalendar(raw, delegate)]

\* _parse_date_expressions called again on the calendar section it has
\* returned, with the same reference time.
Reannotate ==
    /\ call.op = "annotate"
    /\ UNCHANGED index
    /\ \E ps \in Draw(call.calendar.detected /\ AsksDelegate(call.calendar.startTime), DelegateTimes, NoTime) :
       \E pe \in Draw(call.calendar.detected /\ call.calendar.startTime # NoTime /\ AsksDelegate(call.calendar.endTime), DelegateTimes, NoTime) :
          LET delegate == [start |-> ps, end |-> pe]
          IN call' = [op |-> "reannotate", raw |-> call.calendar,
                      delegate |-> delegate,
                      calendar |-> ParseCalendar(call.calendar, delegate)]

NextAnnotate ==
    \/ Annotate
    \/ Reannotate

SpecAnnotate == InitAnnotate /\ [][NextAnnotate]_vars

(***************************************************************************)
(* The whole bundle: analyze_message_comprehensive from the response of    *)
(* the language model to the dictionary it returns, with its keys.         *)
(***************************************************************************)
Categories ==
    {"calendar", "reminder", "decision", "rsvp", "priority", "conflict"}

_get_default_analysis ==
    [calendar |-> [detected |-> FALSE, title |-> None,
                   date_expression |-> None, startTime |-> NoTime,
                   endTime |-> NoTime, duration |-> NoDuration,
                   location |-> None, is_invitation |-> FALSE],
     reminder |-> [detected |-> FALSE, title |-> None,
                   date_expression |-> None],
     decision |-> [detected |-> FALSE, text |-> None],
     rsvp |-> [detected |-> FALSE, status |-> None,
               event_reference |-> None],
     priority |-> [detected |-> FALSE, level |-> None, reason |-> None],
     conflict |-> [detected |-> FALSE, conflicting_events |-> <<>>,
                   calendar_conflicts |-> <<>>, alternatives |-> <<>>,
                   reasoning |-> PlainReasoning("")]]

complete_structure ==
    [calendar |-> [detected |-> FALSE, title |-> None,
                   date_expression |-> None, startTime |-> NoTime,
                   endTime |-> NoTime, duration |-> NoDuration,
                   location |-> None, is_invitation |-> FALSE],
     reminder |-> [detected |-> FALSE, title |-> None,
                   date_expression |-> None],
     decision |-> [detected |-> FALSE, text |-> None,
                   temporal_context |-> None],
     rsvp |-> [detected |-> FALSE, status |-> None,
               event_reference |-> None, temporal_context |-> None],
     priority |-> [detected |-> FALSE, level |-> None, reason |-> None,
                   deadline_expression |-> None],
     conflict |-> [detected |-> FALSE, conflicting_events |-> <<>>]]

\* A missing category gets the whole default section, a present one the
\* default of each field it lacks.
_ensure_complete_analysis(result) ==
    [c \in Categories |->
        IF c \notin DOMAIN result THEN complete_structure[c]
        ELSE [f \in DOMAIN result[c] \cup DOMAIN complete_structure[c] |->
                 IF f \in DOMAIN result[c] THEN result[c][f]
                 ELSE complete_structure[c][f]]]

\* reference_time.strftime(...), and the instant dateparser gives a phrase.
ReferenceTime == "reference"

Instant(phrase) == "parsed " \o phrase

\* dateparser.parse on a relative phrase: `resolved` is the set of phrases
\* the library resolves.
ParseInstant(phrase, resolved) ==
    IF phrase \in resolved THEN Instant(phrase) ELSE None

ParseReminder(reminder) ==
    Put(reminder, "due_date",
        IF reminder.detected /\ ~NoDate(reminder.date_expression)
        THEN dateparser_parse(reminder.date_expression)
        ELSE None)

temporal_indicators ==
    <<"yesterday", "today", "earlier", "just now", "recently", "earlier today">>

\* The for/else over temporal_indicators from position i on: the first
\* indicator in the text that dateparser resolves, else the reference time.
RECURSIVE IndicatorTimestamp(_, _, _)
IndicatorTimestamp(decision_text, resolved, i) ==
    IF i > Len(temporal_indicators) THEN ReferenceTime
    ELSE IF /\ Contains(Lower(decision_text), temporal_indicators[i])
            /\ temporal_indicators[i] \in resolved
    THEN Instant(temporal_indicators[i])
    ELSE IndicatorTimestamp(decision_text, resolved, i + 1)

DecisionTimestamp(decision, resolved) ==
    IF decision.detected /\ ~NoDate(decision.text)
    THEN IF ~NoDate(Get(decision, "temporal_context"))
         THEN IF Get(decision, "temporal_context") \in resolved
              THEN Instant(Get(decision, "temporal_context"))
              ELSE ReferenceTime
         ELSE IndicatorTimestamp(decision.text, resolved, 1)
    ELSE None

ParseDecision(decision, resolved) ==
    Put(decision, "timestamp", DecisionTimestamp(decision, resolved))

RsvpWords == {"yesterday", "earlier", "just now"}

RsvpText(rsvp) == IF NoDate(rsvp.status) THEN "" ELSE rsvp.status

RsvpTimestamp(rsvp, resolved) ==
    IF ~rsvp.detected THEN None
    ELSE IF ~NoDate(Get(rsvp, "temporal_context"))
    THEN IF Get(rsvp, "temporal_context") \in resolved
         THEN Instant(Get(rsvp, "temporal_context"))
         ELSE ReferenceTime
    ELSE IF /\ \E word \in RsvpWords : Contains(Lower(RsvpText(rsvp)), word)
            /\ RsvpText(rsvp) \in resolved
    THEN Instant(RsvpText(rsvp))
    ELSE ReferenceTime

ParseRsvp(rsvp, resolved) ==
    Put(rsvp, "timestamp", RsvpTimestamp(rsvp, resolved))

\* The characters of text from position i up to the first comma or full
\* stop: what the group ([^,\.]+) of the deadline pattern takes.
RECURSIVE UptoStop(_, _)
UptoStop(text, i) ==
    IF i > Len(text) \/ SubSeq(text, i, i) \in {",", "."} THEN ""
    ELSE SubSeq(text, i, i) \o UptoStop(text, i + 1)

\* str.strip() for spaces.
RECURSIVE Strip(_)
Strip(text) ==
    IF text = "" THEN ""
    ELSE IF SubSeq(text, 1, 1) = " " THEN Strip(SubSeq(text, 2, Len(text)))
    ELSE IF SubSeq(text, Len(text), Len(text)) = " "
    THEN Strip(SubSeq(text, 1, Len(text) - 1))
    ELSE text

\* The positions where indicator\s+([^,\.]+) matches in text.
DeadlineMatches(text, indicator) ==
    {p \in 1..Len(text) :
        /\ p + Len(indicator) <= Len(text)
        /\ SubSeq(text, p, p + Len(indicator) - 1) = indicator
        /\ SubSeq(text, p + Len(indicator), p + Len(indicator)) = " "
        /\ UptoStop(text, p + Len(indicator) + 1) # ""}

\* re.search(...).group(1).strip(): the phrase after the leftmost match,
\* None when the pattern does not match.
DeadlineExpr(text, indicator) ==
    IF DeadlineMatches(text, indicator) = {} THEN None
    ELSE LET p == CHOOSE q \in DeadlineMatches(text, indicator) :
                      \A r \in DeadlineMatches(text, indicator) : q <= r
         IN Strip(UptoStop(text, p + Len(indicator) + 1))

deadline_indicators == <<"by", "before", "until", "deadline", "due">>

\* A default that gives both levels the end of the day.
LevelDeadline_EndOfDay(level) ==
    IF level \in {"high", "medium"} THEN "reference day 23:59:59" ELSE None

\* The default deadline of a level.
LevelDeadline(level) ==
    IF level = "high" THEN "reference + 1 hour"
    ELSE IF level = "medium" THEN "reference day 23:59:59"
    ELSE None

\* The for/else over deadline_indicators from position i on: the first
\* indicator in the reason whose phrase dateparser resolves, else the
\* default of the level.
RECURSIVE ReasonDeadline(_, _, _, _)
ReasonDeadline(priority_text, level, resolved, i) ==
    IF i > Len(deadline_indicators) THEN LevelDeadline(level)
    ELSE IF /\ Contains(Lower(priority_text), deadline_indicators[i])
            /\ DeadlineExpr(priority_text, deadline_indicators[i]) \in resolved
    THEN Instant(DeadlineExpr(priority_text, deadline_indicators[i]))
    ELSE ReasonDeadline(priority_text, level, resolved, i + 1)

PriorityText(priority) == IF NoDate(priority.reason) THEN "" ELSE priority.reason

PriorityDeadline(priority, resolved) ==
    IF ~(priority.detected /\ priority.level \in {"high", "medium"}) THEN None
    ELSE IF ~NoDate(Get(priority, "deadline_expression"))
    THEN ParseInstant(Get(priority, "deadline_expression"), resolved)
    ELSE ReasonDeadline(PriorityText(priority), priority.level, resolved, 1)

ParsePriority(priority, resolved) ==
    Put(priority, "deadline", PriorityDeadline(priority, resolved))

\* _parse_date_expressions on the completed result.
_parse_date_expressions(result, resolved) ==
    [calendar |-> ParseCalendar(result.calendar, SilentDelegate),
     reminder |-> ParseReminder(result.reminder),
     decision |-> ParseDecision(result.decision, resolved),
     rsvp |-> ParseRsvp(result.rsvp, resolved),
     priority |-> ParsePriority(result.priority, resolved),
     conflict |-> ParseConflict(result.conflict)]

\* The conflict stage: the verdict is copied into the conflict section and
\* its similar events into the calendar section.
ConflictStage(result, idx, env) ==
    IF ~ConflictCheckDue(result.calendar) THEN result
    ELSE LET verdict ==
                 _check_calendar_conflicts_pinecone(
                     idx, DetectedEvent(result.calendar), env).val
         IN [result EXCEPT
                !.conflict = UpdateConflict(result.conflict, verdict),
                !.calendar = Put(result.calendar, "similar_events",
                                 verdict.similar_events)]

\* The phrases the annotation hands to dateparser for a completed result.
AskedPhrases(result) ==
    LET d == result.decision
        r == result.rsvp
        p == result.priority
    IN (IF ~(d.detected /\ ~NoDate(d.text)) THEN {}
        ELSE IF ~NoDate(d.temporal_context) THEN {d.temporal_context}
        ELSE {temporal_indicators[i] : i \in
                 {j \in 1..Len(temporal_indicators) :
                     Contains(Lower(d.text), temporal_indicators[j])}})
       \cup
       (IF ~r.detected THEN {}
        ELSE IF ~NoDate(r.temporal_context) THEN {r.temporal_context}
        ELSE IF \E word \in RsvpWords : Contains(Lower(RsvpText(r)), word)
        THEN {RsvpText(r)} ELSE {})
       \cup
       (IF ~(p.detected /\ p.level \in {"high", "medium"}) THEN {}
        ELSE IF ~NoDate(p.deadline_expression) THEN {p.deadline_expression}
        ELSE {DeadlineExpr(PriorityText(p), deadline_indicators[i]) : i \in
                 {j \in 1..Len(deadline_indicators) :
                     /\ Contains(Lower(PriorityText(p)), deadline_indicators[j])
                     /\ DeadlineExpr(PriorityText(p), deadline_indicators[j]) # None}})

\* The sections the function call of the language model may carry: only
\* the detected flag, or every raw field.
FullCalendar(detected, date_expression) ==
    [detected |-> detected, title |-> "Dentist",
     date_expression |-> date_expression, startTime |-> <<14, 30>>,
     endTime |-> NoTime, duration |-> NoDuration, location |-> None,
     is_invitation |-> FALSE]

RawCalendars ==
    {[detected |-> TRUE], FullCalendar(FALSE, "2025-10-27"),
     FullCalendar(TRUE, "2025-10-27"), FullCalendar(TRUE, "someday")}

FullReminder(detected, date_expression) ==
    [detected |-> detected, title |-> "Call the clinic",
     date_expression |-> date_expression]

RawReminders ==
    {[detected |-> TRUE], FullReminder(FALSE, "2025-10-27"),
     FullReminder(TRUE, "2025-10-27"), FullReminder(TRUE, "someday")}

DecisionTexts == {"", "use Postgres", "agreed yesterday, signed today"}

FullDecision(detected, text, temporal_context) ==
    [detected |-> detected, text |-> text,
     temporal_context |-> temporal_context]

RawDecisions ==
    {[detected |-> TRUE], [detected |-> TRUE, temporal_context |-> "last week"],
     FullDecision(FALSE, "use Postgres", None)}
    \cup
    {FullDecision(TRUE, text, temporal_context) :
        text \in DecisionTexts, temporal_context \in {None, "last week"}}

FullRsvp(detected, status, temporal_context) ==
    [detected |-> detected, status |-> status,
     event_reference |-> "Dentist", temporal_context |-> temporal_context]

RawRsvps ==
    {[detected |-> TRUE], FullRsvp(FALSE, "accepted", None),
     FullRsvp(TRUE, "accepted", None), FullRsvp(TRUE, "accepted earlier", None),
     FullRsvp(TRUE, "accepted", "an hour ago")}

FullPriority(detected, level, reason, deadline_expression) ==
    [detected |-> detected, level |-> level, reason |-> reason,
     deadline_expression |-> deadline_expression]

RawPriorities ==
    {[detected |-> TRUE], FullPriority(FALSE, "low", "no hurry", None),
     FullPriority(TRUE, "low", "finish by friday", "monday"),
     FullPriority(TRUE, "medium", "blocks the release", None),
     FullPriority(TRUE, "medium", "finish by friday", None)}
    \cup
    {FullPriority(TRUE, "high", reason, deadline_expression) :
        reason \in {"blocks the release", "finish by friday"},
        deadline_expression \in {None, "monday"}}

RawConflicts ==
    {[detected |-> detected,
      conflicting_events |-> IF detected THEN <<"Lunch">> ELSE <<>>] :
        detected \in BOOLEAN}

InitBundle ==
    /\ index = <<>>
    /\ call = Idle

\* The response carries no analyze_message function call, or its arguments
\* are not valid JSON: the default analysis is returned.
MalformedResponse ==
    /\ call = Idle
    /\ UNCHANGED index
    /\ \E response \in {"no function call", "invalid arguments"} :
          call' = [op |-> "bundle", response |-> response, raw |-> <<>>,
                   resolved |-> {}, bundle |-> _get_default_analysis]

\* The response carries the function call: its arguments are completed,
\* annotated and passed through the conflict stage.
AnalyzeBundle ==
    /\ call = Idle
    /\ UNCHANGED index
    /\ \E present \in SUBSET Categories :
       \E calendar \in Draw("calendar" \in present, RawCalendars, <<>>) :
       \E reminder \in Draw("reminder" \in present, RawReminders, <<>>) :
       \E decision \in Draw("decision" \in present, RawDecisions, <<>>) :
       \E rsvp \in Draw("rsvp" \in present, RawRsvps, <<>>) :
       \E priority \in Draw("priority" \in present, RawPriorities, <<>>) :
       \E conflict \in Draw("conflict" \in present, RawConflicts, <<>>) :
          LET sections == [calendar |-> calendar, reminder |-> reminder,
                           decision |-> decision, rsvp |-> rsvp,
                           priority |-> priority, conflict |-> conflict]
              raw == [c \in present |-> sections[c]]
              complete == _ensure_complete_analysis(raw)
          IN \E resolved \in SUBSET AskedPhrases(complete) :
             \E serviceFails \in Draw(ConflictCheckDue(_parse_date_expressions(complete, resolved).calendar), BOOLEAN, FALSE) :
                call' = [op |-> "bundle", response |-> "analyze_message",
                         raw |-> raw, resolved |-> resolved,
                         bundle |-> ConflictStage(
                             _parse_date_expressions(complete, resolved),
                             index,
                             [NoEnv EXCEPT !.serviceFails = serviceFails])]

NextBundle ==
    \/ MalformedResponse
    \/ AnalyzeBundle

SpecBundle == InitBundle /\ [][NextBundle]_vars

(***************************************************************************)
(* The reference time of one analysis call: where it comes from and what   *)
(* is resolved against it.                                                 *)
(***************************************************************************)
\* An instant is a day number, an hour and the minutes and seconds of the
\* hour; NoStamp is message_timestamp = None.
At(day, hour, tail) == [day |-> day, hour |-> hour, tail |-> tail]

NoStamp == At(-1, 0, "00:00")

Instants == {At(day, hour, "00:00") : day \in 0..2, hour \in {9, 23}}

\* A reference time that prefers the timestamp of the message.
ReferenceInstant_PrefersMessage(message_timestamp, now) ==
    IF message_timestamp # NoStamp THEN message_timestamp ELSE now

\* reference_time = datetime.now(): the message timestamp is not read.
ReferenceInstant(message_timestamp, now) == now

\* reference_time + timedelta(hours=1) for high, 23:59:59 of
\* reference_time.date() for medium.
DeadlineAt(reference_time, level) ==
    IF level = "high"
    THEN IF reference_time.hour = 23
         THEN At(reference_time.day + 1, 0, reference_time.tail)
         ELSE At(reference_time.day, reference_time.hour + 1,
                 reference_time.tail)
    ELSE At(reference_time.day, 23, "59:59")

InitReference ==
    /\ index = <<>>
    /\ call = Idle

\* One analysis call with a detected "next <weekday>" event that dateparser
\* does not resolve, a detected decision without temporal context, a
\* detected priority without deadline phrase and a detected conflict.
AnalyzeAt ==
    /\ call = Idle
    /\ UNCHANGED index
    /\ \E message_timestamp \in Instants \cup {NoStamp}, now \in Instants,
          target_weekday \in Weekdays, level \in {"high", "medium"} :
          LET reference_time == ReferenceInstant(message_timestamp, now)
          IN call' = [op |-> "reference",
                      message_timestamp |-> message_timestamp, now |-> now,
                      target_weekday |-> target_weekday, level |-> level,
                      reference_time |-> reference_time,
                      date |-> ManualNextWeekday(reference_time.day,
                                                 target_weekday),
                      timestamp |-> reference_time,
                      deadline |-> DeadlineAt(reference_time, level),
                      detected_at |-> reference_time]

NextReference == AnalyzeAt

SpecReference == InitReference /\ [][NextReference]_vars

(***************************************************************************)
(* Deduplication gate: properties                                          *)
(***************************************************************************)
InDedup == call.op = "check_duplicates_and_index"

\* The calling user had records in the index when the call started.
HadEvents == UserIds(call.before, call.event.user_id) # {}

\* The three best matches the index holds for the query, and the best score.
Top3 == SubSeq(call.env.ranking, 1, Min(3, Len(call.env.ranking)))
Best == call.env.ranking[1][2]

IndexingWorks == ~call.env.embedFails /\ ~call.env.upsertFails
LookupWorks == ~call.env.probeFails /\ ~call.env.searchFails

\* The index after the call is the index before it plus one record, stored
\* under the candidate's id and carrying every metadata field of it.
CandidateAdded ==
    LET id == call.event.id
    IN /\ id \notin DOMAIN call.before
       /\ DOMAIN index = DOMAIN call.before \cup {id}
       /\ \A i \in DOMAIN call.before : index[i] = call.before[i]
       /\ index[id].event_id = id
       /\ index[id].user_id = call.event.user_id
       /\ index[id].title = call.event.title
       /\ index[id].date = call.event.date
       /\ index[id].startTime = call.event.startTime
       /\ index[id].endTime = call.event.endTime
       /\ index[id].location =
              (IF call.event.location = None THEN "" ELSE call.event.location)
       /\ index[id].conversation_id = call.event.conversation_id

\* C1 as stated: a call for a user with zero indexed events skips the
\* duplicate search and returns is_duplicate=false and indexed=true.
C1_Original ==
    (InDedup /\ ~HadEvents) =>
        /\ ~call.result.searched
        /\ ~call.result.is_duplicate
        /\ call.result.indexed

\* C1 amended: a call for a user with zero indexed events skips the
\* duplicate search and returns is_duplicate=false; indexed is true, and the
\* candidate is in the index, exactly when the embedding and the upsert
\* succeed, and the index is unchanged otherwise.
C1_FastPath ==
    (InDedup /\ ~HadEvents) =>
        /\ ~call.result.searched
        /\ ~call.result.is_duplicate
        /\ call.result.similar_event = <<>>
        /\ call.result.indexed <=> IndexingWorks
        /\ call.result.indexed => CandidateAdded
        /\ ~call.result.indexed => index = call.before

C1_Witness ==
    /\ InDedup /\ ~HadEvents
    /\ DOMAIN call.before # {}
    /\ call.result.indexed

ReportsStrongMatch ==
    /\ call.result.is_duplicate
    /\ \E i \in 1..Len(Top3) :
          /\ Top3[i][2] >= 85
          /\ call.result.similar_event = <<Match(call.before, Top3[i])>>
    /\ ~call.result.indexed
    /\ index = call.before

HasStrongMatch == \E i \in 1..Len(Top3) : Top3[i][2] >= 85

C4_IndexesNew ==
    (/\ InDedup /\ HadEvents /\ IndexingWorks
     /\ \A i \in 1..Len(Top3) : Top3[i][2] < 75) =>
        /\ ~call.result.is_duplicate
        /\ call.result.indexed
        /\ CandidateAdded
        /\ Cardinality(DOMAIN index) = Cardinality(DOMAIN call.before) + 1

C4_Witness ==
    /\ InDedup /\ HadEvents /\ IndexingWorks /\ LookupWorks
    /\ Best = 60
    /\ call.event.location # None
    /\ call.result.indexed

\* C5: the call never raises; a failed embedding or upsert gives
\* indexed=false and writes nothing; a failed duplicate search counts as no
\* match, so the candidate is reported is_duplicate=false and is indexed
\* whenever the indexing itself works.
C5_NeverRaises ==
    InDedup =>
        /\ ~call.result.raised
        /\ ~IndexingWorks => (~call.result.indexed /\ index = call.before)
        /\ (HadEvents /\ ~call.env.probeFails /\ call.env.searchFails) =>
              /\ ~call.result.is_duplicate
              /\ call.result.indexed <=> IndexingWorks
              /\ call.result.indexed => CandidateAdded

C5_Witness ==
    /\ InDedup /\ HadEvents
    /\ ~call.env.probeFails /\ call.env.searchFails
    /\ Best >= 75
    /\ call.result.indexed

(***************************************************************************)
(* Conflict detection: properties                                          *)
(***************************************************************************)
InAnalysis == call.op = "analyze_message"

\* The conflict stage has run the detector, and the detector has answered.
InDetector == InAnalysis /\ call.invoked
Answered == InDetector /\ ~call.raised

\* A value of the form hh:mm.
IsClock(t) == Len(t) = 2

\* The stored record is the user's, on the detected event's date, and its
\* interval and the detected event's share an instant (half-open).
OverlapsDetected(md) ==
    /\ md.user_id = call.user_id
    /\ md.date = call.calendar.date
    /\ IsClock(call.calendar.startTime) /\ IsClock(call.calendar.endTime)
    /\ IsClock(md.startTime) /\ IsClock(md.endTime)
    /\ call.calendar.startTime[1] * 60 + call.calendar.startTime[2]
           < md.endTime[1] * 60 + md.endTime[2]
    /\ md.startTime[1] * 60 + md.startTime[2]
           < call.calendar.endTime[1] * 60 + call.calendar.endTime[2]

OverlappingIds == {i \in DOMAIN index : OverlapsDetected(index[i])}

\* The ids among the (at most 20) results the date query returned.
DateQueryIds ==
    {call.env.timeRanking[k][1] :
        k \in 1..(IF Len(call.env.timeRanking) < 20
                  THEN Len(call.env.timeRanking) ELSE 20)}

AllAboveSameEvent == \A i \in OverlappingIds : call.env.cosine[i] > 70

\* The stored event is listed in the verdict's conflicts with its fields.
ListedAsConflict(i) ==
    \E k \in 1..Len(call.verdict.conflicts) :
        /\ call.verdict.conflicts[k].id = i
        /\ call.verdict.conflicts[k].title = index[i].title
        /\ call.verdict.conflicts[k].startTime = index[i].startTime
        /\ call.verdict.conflicts[k].endTime = index[i].endTime

\* C6 as stated: when the stored events overlapping the detected event (at
\* least one) all have similarity above 0.70, the verdict has
\* same_event_detected=true, has_conflicts=false and no conflicts.
C6_Original ==
    (InDetector /\ OverlappingIds # {} /\ AllAboveSameEvent) =>
        /\ ~call.raised
        /\ call.verdict.same_event_detected
        /\ ~call.verdict.has_conflicts
        /\ call.verdict.conflicts = <<>>

\* C6 amended: when every stored event overlapping the detected event has
\* similarity above 0.70, the verdict has has_conflicts=false and no
\* conflicts; same_event_detected is true exactly when at least one such
\* event is among the results of the date query and neither the building of
\* the indexing service nor an embedding request of the loop fails.
C6_SameEvent ==
    (InDetector /\ AllAboveSameEvent) =>
        /\ ~call.raised
        /\ ~call.verdict.has_conflicts
        /\ call.verdict.conflicts = <<>>
        /\ call.verdict.same_event_detected <=>
              /\ OverlappingIds \cap DateQueryIds # {}
              /\ ~call.env.serviceFails
              /\ ~call.env.embedFails

C6_Witness ==
    /\ Answered /\ AllAboveSameEvent
    /\ Cardinality(OverlappingIds) = 2
    /\ call.verdict.same_event_detected
    /\ ~call.verdict.has_conflicts

\* C7 as stated: every stored event of the user on the detected event's
\* date that overlaps it and has similarity at most 0.70 is listed in
\* conflicts, and has_conflicts is then true.
C7_Original ==
    InDetector =>
        \A i \in OverlappingIds :
            call.env.cosine[i] <= 70 =>
                /\ ~call.raised
                /\ ListedAsConflict(i)
                /\ call.verdict.has_conflicts

\* C7 amended: the same for every such event that is among the results of
\* the date query, provided the indexing service is built and no embedding
\* request of the loop fails.
C7_Conflict ==
    (InDetector /\ ~call.env.serviceFails /\ ~call.env.embedFails) =>
        \A i \in OverlappingIds \cap DateQueryIds :
            call.env.cosine[i] <= 70 =>
                /\ ~call.raised
                /\ ListedAsConflict(i)
                /\ call.verdict.has_conflicts

C7_Witness ==
    /\ Answered
    /\ Cardinality(OverlappingIds) = 2
    /\ \A i \in OverlappingIds : call.env.cosine[i] = 70 /\ ListedAsConflict(i)
    /\ call.verdict.has_conflicts

InOverlap == call.op = "_times_overlap"

\* Every date and time of the call is present and the times are hh:mm.
OverlapInputsValid ==
    /\ call.date1 # "" /\ call.date2 # ""
    /\ IsClock(call.start1) /\ IsClock(call.end1)
    /\ IsClock(call.start2) /\ IsClock(call.end2)

\* C8: for present, valid values _times_overlap is true exactly when the
\* dates are equal, start1 < end2 and start2 < end1, so back-to-back events
\* and events on different dates do not overlap; a missing or unparseable
\* value gives false; and the result is the same with the events swapped.
C8_HalfOpen ==
    InOverlap =>
        /\ OverlapInputsValid =>
              (call.result <=>
                  /\ call.date1 = call.date2
                  /\ call.start1[1] * 60 + call.start1[2]
                         < call.end2[1] * 60 + call.end2[2]
                  /\ call.start2[1] * 60 + call.start2[2]
                         < call.end1[1] * 60 + call.end1[2])
        /\ ~OverlapInputsValid => ~call.result
        /\ call.result = _times_overlap(call.date2, call.start2, call.end2,
                                        call.date1, call.start1, call.end1)

C8_Witness ==
    /\ InOverlap
    /\ call.date1 = "2025-10-27" /\ call.date2 = "2025-10-27"
    /\ call.start1 = <<14, 0>> /\ call.end1 = <<15, 0>>
    /\ call.start2 = <<15, 0>> /\ call.end2 = <<16, 0>>
    /\ ~call.result

NoTimeInfo ==
    \/ ~call.calendar.detected
    \/ call.calendar.date = None
    \/ call.calendar.startTime = NoTime
    \/ call.calendar.endTime = NoTime

\* C9: the analysis runs the conflict detector only for a detected calendar
\* event with a date, a startTime and an endTime; when the event is not
\* detected or one of the three is missing, no index query is made and the
\* conflict section is as it was before the stage.
C9_Gate ==
    InAnalysis =>
        /\ call.invoked => ~NoTimeInfo
        /\ NoTimeInfo =>
              /\ ~call.invoked
              /\ call.queries = 0
              /\ call.conflict = call.conflict_before

C9_Witness ==
    /\ InAnalysis
    /\ call.calendar.detected
    /\ call.calendar.date = "2025-10-27"
    /\ call.calendar.startTime # NoTime /\ call.calendar.endTime = NoTime
    /\ UserIds(index, call.user_id) # {}
    /\ call.conflict_before.detected
    /\ call.conflict = call.conflict_before
    /\ ~call.invoked

SomeCallFails ==
    \/ call.env.serviceFails \/ call.env.timeFails
    \/ call.env.embedFails \/ call.env.semFails

\* The string is not empty: its literal text or the message put in it is not.
NonEmpty(reasoning) == reasoning.text # "" \/ reasoning.message # ""

DescribesFailure(reasoning) ==
    reasoning.text \in {"Error searching conflicts: ",
                        "Conflict detection unavailable: "}

NormalVerdict ==
    Answered /\ ~call.env.serviceFails /\ ~call.env.embedFails

\* C12 as stated: the reasoning says "same event" if a same-event match was
\* found; otherwise, with conflicts, it names the first conflict's title and
\* time window whatever their number, and its similarity when there is
\* exactly one; otherwise it says that no conflicts were found.
C12_Original ==
    NormalVerdict =>
        LET v == call.verdict
        IN /\ v.same_event_detected =>
                 v.reasoning.text = "This appears to be the same event being discussed"
           /\ (~v.same_event_detected /\ v.conflicts # <<>>) =>
                 /\ v.reasoning.title = v.conflicts[1].title
                 /\ v.reasoning.startTime = v.conflicts[1].startTime
                 /\ v.reasoning.endTime = v.conflicts[1].endTime
                 /\ Len(v.conflicts) = 1 =>
                        v.reasoning.similarity = v.conflicts[1].similarity_score
           /\ (~v.same_event_detected /\ v.conflicts = <<>>) =>
                 v.reasoning.text = "No scheduling conflicts detected"

\* C12 amended: the same order, but the conflict's title, time window and
\* similarity are named only when there is exactly one conflict; with two
\* or more the reasoning gives their number and names no event.
C12_ReasoningOrder ==
    NormalVerdict =>
        LET v == call.verdict
        IN /\ v.same_event_detected =>
                 v.reasoning.text = "This appears to be the same event being discussed"
           /\ (~v.same_event_detected /\ Len(v.conflicts) = 1) =>
                 /\ v.reasoning.text = "This conflicts with your existing"
                 /\ v.reasoning.title = v.conflicts[1].title
                 /\ v.reasoning.startTime = v.conflicts[1].startTime
                 /\ v.reasoning.endTime = v.conflicts[1].endTime
                 /\ v.reasoning.similarity = v.conflicts[1].similarity_score
           /\ (~v.same_event_detected /\ Len(v.conflicts) > 1) =>
                 /\ v.reasoning.text = "This conflicts with N existing events"
                 /\ v.reasoning.count = Len(v.conflicts)
                 /\ v.reasoning.title = ""
                 /\ v.reasoning.startTime = NoTime
           /\ (~v.same_event_detected /\ v.conflicts = <<>>) =>
                 v.reasoning.text = "No scheduling conflicts detected"

C12_Witness ==
    /\ NormalVerdict
    /\ ~call.verdict.same_event_detected
    /\ Len(call.verdict.conflicts) = 2
    /\ call.verdict.reasoning.count = 2

(***************************************************************************)
(* Annotation: properties                                                  *)
(***************************************************************************)
InNextWeekday == call.op = "next_weekday"

\* dateparser resolved none of the attempts.
DelegateSilent ==
    \A k \in 1..NumAttempts : call.outcomes[k] \notin DelegateOffsets

\* The date is on the target weekday, 1 to 7 days after the reference.
StrictlyNext ==
    /\ call.date % 7 = call.target_weekday
    /\ call.date - call.reference >= 1
    /\ call.date - call.reference <= 7

\* C13 as stated: for every reference date and weekday the date resolved
\* for "next <weekday>" is on that weekday, 1 to 7 days after the reference
\* (7 when the reference is on that weekday).
C13_Original ==
    InNextWeekday => StrictlyNext

\* C13 amended: when dateparser resolves none of the attempts, the manual
\* fallback gives the date on the target weekday 1 to 7 days after the
\* reference, days ahead being (W - weekday(R)) mod 7 with 0 replaced by 7;
\* a date dateparser does resolve is taken as it is.
C13_ManualFallback ==
    InNextWeekday =>
        /\ DelegateSilent =>
              /\ StrictlyNext
              /\ call.date - call.reference =
                    (IF (call.target_weekday + 7 - (call.reference % 7)) % 7 = 0
                     THEN 7
                     ELSE (call.target_weekday + 7 - (call.reference % 7)) % 7)
        /\ ~DelegateSilent =>
              \E k \in 1..NumAttempts :
                  /\ call.outcomes[k] \in DelegateOffsets
                  /\ \A j \in 1..(k - 1) : call.outcomes[j] \notin DelegateOffsets
                  /\ call.date = call.reference + call.outcomes[k]

C13_Witness ==
    /\ InNextWeekday /\ DelegateSilent
    /\ call.outcomes[1] = ParseRaises
    /\ call.reference % 7 = call.target_weekday
    /\ call.date = call.reference + 7

InAnnotate == call.op = "annotate"

\* A detected calendar event whose raw start time is a valid h:m value.
ValidStart == InAnnotate /\ call.raw.detected /\ IsClock(call.raw.startTime)
                 /\ call.raw.startTime[1] \in 0..23
                 /\ call.raw.startTime[2] \in 0..59

\* C14: for a detected event with a valid start h:m and no end time,
\* annotation sets endTime to ((h + 1) mod 24):m and duration to 60, also
\* in the 23:xx hour, and the date is what the date expression alone gives.
C14_OneHourDefault ==
    (ValidStart /\ call.raw.endTime = NoTime) =>
        /\ call.calendar.startTime = call.raw.startTime
        /\ call.calendar.endTime[1] =
              (IF call.raw.startTime[1] = 23 THEN 0
               ELSE call.raw.startTime[1] + 1)
        /\ call.calendar.endTime[2] = call.raw.startTime[2]
        /\ call.calendar.duration = 60
        /\ call.calendar.date = call.raw.date_expression

C14_Witness ==
    /\ ValidStart /\ call.raw.endTime = NoTime
    /\ call.raw.startTime = <<23, 30>>
    /\ call.raw.date_expression = "2025-10-27"
    /\ call.calendar.endTime = <<0, 30>>
    /\ call.calendar.duration = 60
    /\ call.calendar.date = "2025-10-27"

\* The raw end time of the event is a valid h:m value.
ValidEnd == /\ IsClock(call.raw.endTime)
            /\ call.raw.endTime[1] \in 0..23
            /\ call.raw.endTime[2] \in 0..59

\* C15: for a detected event with valid start and end times, duration is
\* the end minus the start in minutes, plus 1440 when that is negative, and
\* so lies in 0..1439.
C15_Duration ==
    (ValidStart /\ ValidEnd) =>
        LET startMinutes == call.raw.startTime[1] * 60 + call.raw.startTime[2]
            endMinutes == call.raw.endTime[1] * 60 + call.raw.endTime[2]
        IN /\ endMinutes >= startMinutes =>
                 call.calendar.duration = endMinutes - startMinutes
           /\ endMinutes < startMinutes =>
                 call.calendar.duration = endMinutes - startMinutes + 1440
           /\ call.calendar.duration \in 0..1439

C15_Witness ==
    /\ ValidStart /\ ValidEnd
    /\ call.raw.startTime = <<23, 30>> /\ call.raw.endTime = <<0, 30>>
    /\ call.calendar.duration = 60

\* A time value that is a valid HH:MM.
ValidClock(t) == IsClock(t) /\ t[1] \in 0..23 /\ t[2] \in 0..59

\* C16: a detected event with a start time whose start, or whose extracted
\* end, does not normalise to a valid HH:MM value gets duration 60, also
\* when the start is unparseable and no end time was extracted.
C16_Original ==
    (/\ InAnnotate /\ call.raw.detected /\ call.raw.startTime # NoTime
     /\ \/ ~ValidClock(call.calendar.startTime)
        \/ call.raw.endTime # NoTime /\ ~ValidClock(call.calendar.endTime)) =>
        call.calendar.duration = 60

\* C17: after annotation a detected event with a startTime has an endTime
\* and a duration, whatever the start time phrase is.
C17_Original ==
    (InAnnotate /\ call.calendar.detected /\ call.calendar.startTime # NoTime) =>
        /\ call.calendar.endTime # NoTime
        /\ call.calendar.duration # NoDuration

\* _parse_time_with_fallback has normalised the start phrase of the event,
\* dateparser having resolved it to the given time or to nothing.
Normalised(phrase, time) ==
    /\ InAnnotate /\ call.raw.detected
    /\ call.raw.startTime = <<phrase>>
    /\ call.delegate.start \in {NoTime, time}

\* C18: _parse_time_with_fallback returns 12:00 for "noon" and 00:00 for
\* "midnight", both when dateparser resolves the phrase and when it yields
\* nothing and the vague-time fallback decides.
C18_Original ==
    /\ Normalised("noon", <<12, 0>>) => call.calendar.startTime = <<12, 0>>
    /\ Normalised("midnight", <<0, 0>>) => call.calendar.startTime = <<0, 0>>

(***************************************************************************)
(* The bundle: properties                                                  *)
(***************************************************************************)
InBundle == call.op = "bundle"

\* The fields the annotation adds to each category.
AnnotatedFields ==
    [calendar |-> {"date", "startTime", "endTime", "duration"},
     reminder |-> {"due_date"},
     decision |-> {"timestamp"},
     rsvp |-> {"timestamp"},
     priority |-> {"deadline"}]

HasEveryField(bundle) ==
    /\ Categories \subseteq DOMAIN bundle
    /\ \A c \in DOMAIN AnnotatedFields :
          AnnotatedFields[c] \cup {"detected"} \subseteq DOMAIN bundle[c]

\* C19 as stated: every bundle message analysis returns, the default bundle
\* of a malformed response included, has every category and in it every
\* annotated field as a key.
C19_Original == InBundle => HasEveryField(call.bundle)

\* The positions of the recency indicators that occur in the text and that
\* dateparser resolves.
FoundIndicators(text, resolved) ==
    {i \in 1..Len(temporal_indicators) :
        /\ Contains(text, temporal_indicators[i])
        /\ temporal_indicators[i] \in resolved}

\* The timestamp the three tiers give a decision.
TieredTimestamp(decision, resolved) ==
    IF ~NoDate(decision.temporal_context)
    THEN IF decision.temporal_context \in resolved
         THEN Instant(decision.temporal_context) ELSE ReferenceTime
    ELSE IF FoundIndicators(decision.text, resolved) # {}
    THEN Instant(temporal_indicators[
             CHOOSE i \in FoundIndicators(decision.text, resolved) :
                 \A j \in FoundIndicators(decision.text, resolved) : i <= j])
    ELSE ReferenceTime

\* C20 as stated: every detected decision, with or without its text, has
\* the non-null timestamp of the first tier that applies.
C20_Original ==
    InBundle /\ call.response = "analyze_message"
             /\ call.bundle.decision.detected
        => /\ call.bundle.decision.timestamp # None
           /\ call.bundle.decision.timestamp
                  = TieredTimestamp(call.bundle.decision, call.resolved)

InWellFormed == InBundle /\ call.response = "analyze_message"

\* The reason of the priority holds no deadline phrase that dateparser
\* resolves.
NoParseableDeadline(priority, resolved) ==
    \A i \in 1..Len(deadline_indicators) :
        \/ ~Contains(PriorityText(priority), deadline_indicators[i])
        \/ DeadlineExpr(PriorityText(priority), deadline_indicators[i])
               \notin resolved

DefaultsApply(priority, resolved) ==
    /\ priority.detected
    /\ NoDate(priority.deadline_expression)
    /\ NoParseableDeadline(priority, resolved)

\* C21: a detected high or medium priority with no deadline expression and
\* no parseable deadline phrase in its reason gets the reference instant
\* plus one hour (high) or 23:59:59 of the reference day (medium); a low
\* or undetected priority gets a null deadline.
C21_LevelDefault ==
    InWellFormed =>
        LET priority == call.bundle.priority
        IN /\ DefaultsApply(priority, call.resolved) /\ priority.level = "high"
                => priority.deadline = "reference + 1 hour"
           /\ DefaultsApply(priority, call.resolved) /\ priority.level = "medium"
                => priority.deadline = "reference day 23:59:59"
           /\ ~priority.detected \/ priority.level = "low"
                => priority.deadline = None

C21_Witness ==
    /\ InWellFormed
    /\ call.bundle.priority.detected
    /\ call.bundle.priority.level = "high"
    /\ call.bundle.priority.reason = "finish by friday"
    /\ call.bundle.priority.deadline_expression = None
    /\ "friday" \notin call.resolved
    /\ call.bundle.priority.deadline = "reference + 1 hour"

InReannotate == call.op = "reannotate"

\* The calendar section handed to the second annotation is fully resolved:
\* its start and end times are HH:MM values and its duration is filled.
FullyResolved ==
    /\ InReannotate
    /\ ValidClock(call.raw.startTime) /\ ValidClock(call.raw.endTime)
    /\ call.raw.duration # NoDuration

\* C22: annotating a fully resolved calendar section a second time with the
\* same reference time leaves its date, start time, end time and duration
\* as the first annotation gave them, also for events that wrap past
\* midnight.
C22_Idempotent ==
    FullyResolved =>
        /\ call.calendar.startTime = call.raw.startTime
        /\ call.calendar.endTime = call.raw.endTime
        /\ call.calendar.duration = call.raw.duration
        /\ call.calendar.date = call.raw.date

C22_Witness ==
    /\ FullyResolved
    /\ call.raw.startTime = <<23, 30>> /\ call.raw.endTime = <<0, 30>>
    /\ call.raw.duration = 60
    /\ call.calendar.startTime = <<23, 30>>
    /\ call.calendar.endTime = <<0, 30>>
    /\ call.calendar.duration = 60

InReference == call.op = "reference"

\* The instant C23 names: the caller's timestamp when there is one, the
\* current time otherwise.
StatedReference ==
    IF call.message_timestamp # NoStamp THEN call.message_timestamp
    ELSE call.now

InRouteAnalysis ==
    /\ call.op = "analyze_message"
    /\ call.request_user # None
    /\ call.invoked /\ ~call.raised

\* The ids of the events a verdict lists as conflicts or as similar events.
ListedIds(verdict) ==
    {verdict.conflicts[k].id : k \in 1..Len(verdict.conflicts)}
    \cup {verdict.similar_events[k] : k \in 1..Len(verdict.similar_events)}

\* C24 as stated: every event the verdict of a request lists was indexed
\* under the user id of that request.
C24_Original ==
    InRouteAnalysis =>
        \A i \in ListedIds(call.verdict) :
            index[i].user_id = call.request_user

InRace == call.op = "create_event_race"

\* Call p has run its check, found no duplicate, and has not inserted yet.
PassedCheck(p) == InRace /\ call.proc[p].pc = "index"

InUpdate == call.op = "update_event"

\* The record under the id of the updated event carries the new fields.
CarriesNewFields ==
    /\ call.event.id \in DOMAIN index
    /\ index[call.event.id] = Metadata(call.event)

\* C26 as stated: the record with the event's id is gone from the index
\* when the new version is inserted, and after an update that returns true
\* the index holds the new version under that id.
C26_Original ==
    InUpdate =>
        /\ call.event.id \notin DOMAIN call.mid
        /\ call.result => CarriesNewFields

\* C26, amended: update_event deletes and then inserts; when the delete
\* succeeds the old record is gone before the insert, when it fails the
\* old record is still there and the insert overwrites it; after an update
\* that returns true the index holds the new version under the id, and the
\* records under other ids are as before.
C26_DeleteThenInsert ==
    InUpdate =>
        /\ ~call.env.deleteFails => call.event.id \notin DOMAIN call.mid
        /\ call.env.deleteFails => call.mid = call.before
        /\ call.result => CarriesNewFields
        /\ \A i \in DOMAIN call.before \ {call.event.id} :
              i \in DOMAIN index /\ index[i] = call.before[i]

C26_Witness ==
    /\ InUpdate
    /\ call.event.id \in DOMAIN call.before
    /\ call.before[call.event.id] # Metadata(call.event)
    /\ ~call.env.deleteFails
    /\ call.event.id \notin DOMAIN call.mid
    /\ call.result
    /\ CarriesNewFields

InAccessors == call.op = "accessors"

\* C27: each accessor constructs at most one instance of its service, and
\* every caller that an accessor has returned to holds the one instance
\* the module-level name is bound to.
C27_Original ==
    InAccessors =>
        \A s \in Services :
            /\ call.made[s] <= 1
            /\ \A p \in Requests :
                  (call.proc[p].pc = "holding" /\ call.proc[p].service = s)
                      => /\ call.proc[p].held # NoInstance
                         /\ call.proc[p].held = call.instance[s]

\* Some record of the calling user scored at or above 0.75 against the
\* candidate's query when the call started.
HadMatchAtThreshold ==
    \E i \in 1..Len(call.env.ranking) :
        call.env.ranking[i][2] >= SIMILARITY_THRESHOLD

C29_ProbeFailureIndexes ==
    (InDedup /\ call.env.probeFails) =>
        /\ ~call.result.raised
        /\ ~call.result.searched
        /\ ~call.result.is_duplicate
        /\ call.result.similar_event = <<>>
        /\ call.result.indexed <=> IndexingWorks
        /\ call.result.indexed => CandidateAdded

C29_Witness ==
    /\ InDedup /\ call.env.probeFails
    /\ HadEvents
    /\ Best >= SIMILARITY_THRESHOLD
    /\ ~call.result.is_duplicate
    /\ call.result.indexed
    /\ CandidateAdded

\* The detector was reached and the verdict is the one search_conflicts
\* returned.
FromSearchConflicts == Answered /\ ~call.env.serviceFails

\* The ids of the events the time step of the call found overlapping.
TimeConflictIds ==
    LET found == _search_time_conflicts(index, DetectedEvent(call.calendar),
                                        call.env.timeRanking,
                                        call.env.timeFails).val
    IN {found[k].event_id : k \in 1..Len(found)}

ConflictIds(verdict) ==
    {verdict.conflicts[k].id : k \in 1..Len(verdict.conflicts)}

SimilarIds(verdict) ==
    {verdict.similar_events[k] : k \in 1..Len(verdict.similar_events)}

\* has_conflicts says whether conflicts is non-empty, and no id is in both
\* lists.
FlagAndListsAgree ==
    /\ call.verdict.has_conflicts <=> call.verdict.conflicts # <<>>
    /\ ConflictIds(call.verdict) \cap SimilarIds(call.verdict) = {}

\* Every time-overlapping event is in conflicts when its similarity is at
\* most 0.70 and in similar_events when it is above, and in one list only.
EachOverlapPlacedOnce ==
    \A i \in TimeConflictIds :
        /\ call.env.cosine[i] <= SAME_EVENT_THRESHOLD =>
              (i \in ConflictIds(call.verdict) /\ i \notin SimilarIds(call.verdict))
        /\ call.env.cosine[i] > SAME_EVENT_THRESHOLD =>
              (i \in SimilarIds(call.verdict) /\ i \notin ConflictIds(call.verdict))

\* C30 as stated: every verdict search_conflicts returns has has_conflicts
\* true exactly when conflicts is non-empty, places each time-overlapping
\* event in exactly one of the two lists by its similarity, and has no id
\* in both lists.
C30_Original ==
    FromSearchConflicts => (FlagAndListsAgree /\ EachOverlapPlacedOnce)

\* C30 amended: the flag and the disjointness hold of every verdict; each
\* time-overlapping event is placed in exactly one list when no embedding
\* request of the loop fails; when one fails the verdict is the error
\* verdict, with both lists empty.
C30_VerdictShape ==
    FromSearchConflicts =>
        /\ FlagAndListsAgree
        /\ ~call.env.embedFails => EachOverlapPlacedOnce
        /\ call.env.embedFails =>
              /\ call.verdict.conflicts = <<>>
              /\ call.verdict.similar_events = <<>>
              /\ ~call.verdict.has_conflicts

C30_Witness ==
    /\ FromSearchConflicts /\ ~call.env.embedFails
    /\ Cardinality(TimeConflictIds) = 2
    /\ \E i, j \in TimeConflictIds :
          /\ call.env.cosine[i] = 70 /\ i \in ConflictIds(call.verdict)
          /\ call.env.cosine[j] = 92 /\ j \in SimilarIds(call.verdict)
          /\ \E k \in 1..Len(call.env.semRanking) :
                call.env.semRanking[k] = <<i, 80>>
    /\ call.verdict.has_conflicts

====
